---------------------------- MODULE Spec2Model ----------------------------
(***************************************************************************)
(* Model of the schema merger of openapi-gen (mergeSchemaFiles and the     *)
(* functions it calls): loading the documents into the Document Table      *)
(* (fileMap) and the Component Registry, resolving every $ref of the main  *)
(* document, normalizing the resolved tree, writing the result.            *)
(*                                                                         *)
(* STRINGS.  A JavaScript string is modelled as a sequence of tokens.  A   *)
(* token is one of the characters the code looks at ("/", ".", "#", and    *)
(* characters outside [A-Za-z0-9-._] such as "{", "}", "$", " "), or a     *)
(* word: a maximal run of characters of [A-Za-z0-9_-].  Every string       *)
(* operation of the code (startsWith, endsWith, includes, lastIndexOf,     *)
(* substring, split, the two regular expressions, the functions of the     *)
(* path module) only cuts a string at such characters, so the operations   *)
(* are computed on token sequences exactly as the code computes them on    *)
(* characters.                                                             *)
(*                                                                         *)
(* VALUES.  A parsed YAML/JSON value is a record tagged by t:              *)
(*   [t |-> "u"]                 undefined (yaml.load of an empty file)    *)
(*   [t |-> "null"]              null                                      *)
(*   [t |-> "s", s |-> str]      a string                                  *)
(*   [t |-> "n", n |-> i]        a number                                  *)
(*   [t |-> "a", a |-> <<v..>>]  an array                                  *)
(*   [t |-> "m", m |-> <<[k |-> str, v |-> value], ..>>]                   *)
(*                               an object, its keys in insertion order    *)
(* A JavaScript Map is the same sequence of [k, v] entries.                *)
(***************************************************************************)
EXTENDS Integers, Sequences, FiniteSets, TLC

(***************************************************************************)
(* Strings                                                                 *)
(***************************************************************************)
Range(s) == {s[i] : i \in 1..Len(s)}

StartsWith(s, p) == Len(s) >= Len(p) /\ SubSeq(s, 1, Len(p)) = p

EndsWith(s, p) == Len(s) >= Len(p) /\ SubSeq(s, Len(s) - Len(p) + 1, Len(s)) = p

Includes(s, p) ==
    \E i \in 1..(Len(s) - Len(p) + 1) : SubSeq(s, i, i + Len(p) - 1) = p

\* 1-based index of the first occurrence of p in s, 0 when there is none
IndexOf(s, p) ==
    LET hits == {i \in 1..(Len(s) - Len(p) + 1) : SubSeq(s, i, i + Len(p) - 1) = p}
    IN  IF hits = {} THEN 0 ELSE CHOOSE i \in hits : \A j \in hits : i <= j

\* 1-based index of the last token tok of s, 0 when there is none (JS: -1)
LastIndexOf(s, tok) ==
    LET hits == {i \in 1..Len(s) : s[i] = tok}
    IN  IF hits = {} THEN 0 ELSE CHOOSE i \in hits : \A j \in hits : i >= j

\* s.substring(0, s.lastIndexOf(".")): the empty string when s has no "."
StripLastDot(s) == SubSeq(s, 1, LastIndexOf(s, ".") - 1)

\* the tokens that are single characters outside [A-Za-z0-9-._]
InvalidChars == {"/", "#", "{", "}", "$", " ", ":"}

YAML == <<".", "yaml">>
YML == <<".", "yml">>
DOTSLASH == <<".", "/">>

HasSchemaExt(s) == EndsWith(s, YAML) \/ EndsWith(s, YML)

(***************************************************************************)
(* The path module (posix)                                                 *)
(***************************************************************************)
\* the process's working directory, an absolute path
Cwd == <<"/", "w">>

RECURSIVE Segs(_)
\* s split at "/": the sequence of its segments (some may be empty)
Segs(s) ==
    LET i == IndexOf(s, <<"/">>)
    IN  IF i = 0 THEN <<s>>
        ELSE <<SubSeq(s, 1, i - 1)>> \o Segs(SubSeq(s, i + 1, Len(s)))

RECURSIVE JoinSegs(_)
JoinSegs(segs) ==
    IF segs = <<>> THEN <<>>
    ELSE IF Len(segs) = 1 THEN segs[1]
    ELSE segs[1] \o <<"/">> \o JoinSegs(Tail(segs))

RECURSIVE NormSegs(_, _)
\* normalizeString: drops "" and ".", and lets ".." remove the segment before it
NormSegs(segs, acc) ==
    IF segs = <<>> THEN acc
    ELSE LET h == Head(segs)
         IN  IF h = <<>> \/ h = <<".">> THEN NormSegs(Tail(segs), acc)
             ELSE IF h = <<".", ".">>
                  THEN NormSegs(Tail(segs),
                                IF acc = <<>> THEN acc ELSE SubSeq(acc, 1, Len(acc) - 1))
                  ELSE NormSegs(Tail(segs), Append(acc, h))

IsAbsolute(p) == Len(p) > 0 /\ p[1] = "/"

\* the normalized segments of the absolute path p
AbsSegs(p) == NormSegs(Segs(p), <<>>)

\* path.resolve(from, to)
PathResolve(from, to) ==
    LET full == IF IsAbsolute(to) THEN to
                ELSE IF IsAbsolute(from) THEN from \o <<"/">> \o to
                ELSE Cwd \o <<"/">> \o from \o <<"/">> \o to
    IN  <<"/">> \o JoinSegs(AbsSegs(full))

\* path.resolve(p)
PathResolve1(p) == PathResolve(<<".">>, p)

RECURSIVE StripTrailingSlashes(_)
StripTrailingSlashes(p) ==
    IF Len(p) > 1 /\ p[Len(p)] = "/" THEN StripTrailingSlashes(SubSeq(p, 1, Len(p) - 1))
    ELSE p

\* path.dirname(p)
PathDirname(p) ==
    LET q == StripTrailingSlashes(p)
        i == LastIndexOf(q, "/")
    IN  IF Len(p) = 0 THEN <<".">>
        ELSE IF i = 0 THEN <<".">>
        ELSE IF i = 1 THEN <<"/">>
        ELSE SubSeq(q, 1, i - 1)

\* path.basename(p)
PathBasename(p) ==
    LET q == StripTrailingSlashes(p)
        i == LastIndexOf(q, "/")
    IN  IF q = <<"/">> THEN <<>> ELSE SubSeq(q, i + 1, Len(q))

RECURSIVE CommonLen(_, _)
CommonLen(a, b) ==
    IF a # <<>> /\ b # <<>> /\ Head(a) = Head(b) THEN 1 + CommonLen(Tail(a), Tail(b))
    ELSE 0

\* path.relative(from, to)
PathRelative(from, to) ==
    LET f == AbsSegs(PathResolve1(from))
        t == AbsSegs(PathResolve1(to))
        c == CommonLen(f, t)
        ups == [i \in 1..(Len(f) - c) |-> <<".", ".">>]
    IN  JoinSegs(ups \o SubSeq(t, c + 1, Len(t)))

(***************************************************************************)
(* Values, objects and Maps                                                *)
(***************************************************************************)
Undef == [t |-> "u"]
Null == [t |-> "null"]
S(str) == [t |-> "s", s |-> str]
N(i) == [t |-> "n", n |-> i]
A(items) == [t |-> "a", a |-> items]
M(entries) == [t |-> "m", m |-> entries]
E(key, val) == [k |-> key, v |-> val]

\* a one-word string
W(word) == <<word>>

\* typeof v === "object" && v !== null
IsObject(v) == v.t \in {"a", "m"}

\* the truthiness of a value
Truthy(v) ==
    CASE v.t = "u" -> FALSE
      [] v.t = "null" -> FALSE
      [] v.t = "s" -> v.s # <<>>
      [] v.t = "n" -> v.n # 0
      [] OTHER -> TRUE

MapKeys(m) == {m[i].k : i \in 1..Len(m)}

MapHas(m, key) == \E i \in 1..Len(m) : m[i].k = key

\* Map.get / property read: undefined when the key is absent
MapGet(m, key) ==
    IF MapHas(m, key) THEN (m[CHOOSE i \in 1..Len(m) : m[i].k = key]).v ELSE Undef

\* Map.set / property write: an existing key keeps its place, a new one goes last
MapSet(m, key, val) ==
    IF MapHas(m, key)
    THEN [i \in 1..Len(m) |-> IF m[i].k = key THEN E(key, val) ELSE m[i]]
    ELSE Append(m, E(key, val))

\* Map.delete / delete obj[key]
MapDelete(m, key) == SelectSeq(m, LAMBDA e : e.k # key)

\* key in obj
ObjHas(v, key) == v.t = "m" /\ MapHas(v.m, key)

\* obj[key]
ObjGet(v, key) == IF v.t = "m" THEN MapGet(v.m, key) ELSE Undef

\* obj[key] = val on an object
ObjSet(v, key, val) == M(MapSet(v.m, key, val))

ObjDelete(v, key) == M(MapDelete(v.m, key))

DREF == <<"$", "ref">>

\* the reference node { $ref: ref }
Ref(ref) == M(<<E(DREF, S(ref))>>)

(***************************************************************************)
(* The Component Registry                                                  *)
(***************************************************************************)
\* the keys of ComponentRegistry, in the order Object.entries gives them
ComponentTypes ==
    <<"schemas", "responses", "parameters", "examples", "requestBodies",
      "headers", "securitySchemes", "links", "callbacks">>

EmptyRegistry == [ty \in Range(ComponentTypes) |-> <<>>]

SCHEMAS_DIR == <<"/", "components", "/", "schemas", "/">>
SCHEMAS_PTR == <<"#", "/", "components", "/", "schemas", "/">>

\* filePath.includes("/components/<type>/")
InComponentDir(filePath, ty) == Includes(filePath, <<"/", "components", "/", ty, "/">>)

\* the if / else-if chain of registerComponents: the first type whose directory
\* the path includes, "" when there is none
ComponentTypeOf(filePath) ==
    LET hits == {i \in 1..Len(ComponentTypes) : InComponentDir(filePath, ComponentTypes[i])}
    IN  IF hits = {} THEN ""
        ELSE ComponentTypes[CHOOSE i \in hits : \A j \in hits : i <= j]

registerComponents(filePath, schema, registry) ==
    LET fileName == PathBasename(filePath)
        fileNameWithoutExt == StripLastDot(fileName)
        componentType == ComponentTypeOf(filePath)
    IN  IF ~IsObject(schema) THEN registry
        ELSE IF ~Includes(filePath, <<"/", "components", "/">>) THEN registry
        ELSE IF componentType = "" THEN registry
        ELSE [registry EXCEPT ![componentType] = MapSet(@, fileNameWithoutExt, schema)]

RECURSIVE TakeName(_)
\* the longest prefix of s without "/" and "." : the group ([^\/\.]+)
TakeName(s) ==
    IF s = <<>> \/ Head(s) \in {"/", "."} THEN <<>>
    ELSE <<Head(s)>> \o TakeName(Tail(s))

RECURSIVE SchemasDirMatch(_)
\* ref.match(/\/components\/schemas\/([^\/\.]+)/)[1], <<>> when nothing matches
SchemasDirMatch(s) ==
    LET i == IndexOf(s, SCHEMAS_DIR)
        rest == SubSeq(s, i + Len(SCHEMAS_DIR), Len(s))
    IN  IF i = 0 THEN <<>>
        ELSE IF TakeName(rest) # <<>> THEN TakeName(rest)
        ELSE SchemasDirMatch(SubSeq(s, i + 1, Len(s)))

\* fileName.split(".")[0]
BeforeFirstDot(s) ==
    LET i == IndexOf(s, <<".">>)
    IN  IF i = 0 THEN s ELSE SubSeq(s, 1, i - 1)

\* null is modelled as the empty string: the callers only test `if (componentName)`
NoName == <<>>

extractComponentName(ref) ==
    IF Includes(ref, SCHEMAS_DIR) /\ SchemasDirMatch(ref) # <<>>
    THEN SchemasDirMatch(ref)
    ELSE IF PathBasename(ref) # <<>> THEN BeforeFirstDot(PathBasename(ref))
    ELSE NoName

(***************************************************************************)
(* The Document Table                                                      *)
(***************************************************************************)
\* fileMap.get(key) when no entry has the key
NoFile == [absolutePath |-> <<>>, relativePath |-> <<>>, content |-> Undef, found |-> FALSE]

FileRef(absolutePath, relativePath, content) ==
    [absolutePath |-> absolutePath, relativePath |-> relativePath,
     content |-> content, found |-> TRUE]

FileMapGet(fm, key) ==
    IF MapHas(fm, key) THEN (fm[CHOOSE i \in 1..Len(fm) : fm[i].k = key]).v ELSE NoFile

\* the extension-less keys of lines 97-104
ExtensionKeys(fm, relativePath, fileRef) ==
    IF HasSchemaExt(relativePath)
    THEN MapSet(MapSet(fm, StripLastDot(relativePath), fileRef),
                DOTSLASH \o StripLastDot(relativePath), fileRef)
    ELSE fm

\* the fileMap.set calls of one iteration of the loading loop
StoreFile(fm, mainFileDir, filePath, schema) ==
    LET absolutePath == PathResolve1(filePath)
        relativePath == PathRelative(mainFileDir, filePath)
        fileRef == FileRef(absolutePath, relativePath, schema)
        withPaths == MapSet(MapSet(MapSet(MapSet(fm, absolutePath, fileRef),
                                          filePath, fileRef),
                                   DOTSLASH \o relativePath, fileRef),
                            relativePath, fileRef)
    IN  ExtensionKeys(withPaths, relativePath, fileRef)

\* LookupFile with the exact key only
LookupFileDirect(fm, basePath, ref) == FileMapGet(fm, ref)

\* the candidate keys of resolveReference, lines 340-371, first match wins
LookupFile(fm, basePath, ref) ==
    LET direct == FileMapGet(fm, ref)
        resolved == FileMapGet(fm, PathResolve(basePath, ref))
        withPrefix == IF ~StartsWith(ref, DOTSLASH)
                      THEN FileMapGet(fm, DOTSLASH \o ref) ELSE NoFile
        noPrefix == IF ~withPrefix.found /\ StartsWith(ref, DOTSLASH)
                    THEN FileMapGet(fm, SubSeq(ref, 3, Len(ref))) ELSE withPrefix
        refWithoutExt == StripLastDot(ref)
        noExt == IF ~noPrefix.found /\ HasSchemaExt(ref)
                 THEN IF FileMapGet(fm, refWithoutExt).found
                      THEN FileMapGet(fm, refWithoutExt)
                      ELSE FileMapGet(fm, DOTSLASH \o refWithoutExt)
                 ELSE noPrefix
    IN  IF direct.found THEN direct
        ELSE IF resolved.found THEN resolved
        ELSE noExt

(***************************************************************************)
(* The Reference Resolver                                                  *)
(*                                                                         *)
(* The resolver's mutable objects are threaded through the operators as a  *)
(* record st:                                                              *)
(*   registry   the ComponentRegistry                                      *)
(*   refMap     the Map from external reference to internal reference      *)
(*   visited    the Set `visited` of the current call (one object shared   *)
(*              by all the nodes of one document; a copy is made only for  *)
(*              the recursion into a referenced document)                  *)
(*   threw      an exception is propagating                                *)
(*   events     history: one record per call of resolveReference, with the *)
(*              references opened by its ancestors (chain) and the refMap  *)
(*              the call found                                             *)
(*   returns    history: one record per call of resolveReference that      *)
(*              returned, in the order of the returns                      *)
(*   overflow   history: the chain of opened documents went beyond         *)
(*              MaxChain (the code has no such limit; the model cuts there)*)
(***************************************************************************)
MaxChain == 3

InitialResolverState(registry) ==
    [registry |-> registry, refMap |-> <<>>, visited |-> {}, threw |-> FALSE,
     events |-> <<>>, returns |-> <<>>, overflow |-> FALSE]

Res(node, st) == [node |-> node, st |-> st]

Event(kind, ref, chain, refMap) ==
    [kind |-> kind, ref |-> ref, chain |-> chain, refMap |-> refMap]

Log(st, kind, ref, chain) ==
    [st EXCEPT !.events = Append(@, Event(kind, ref, chain, st.refMap))]

\* visited.has(ref)
IsCircular(visited, ref) == ref \in visited

\* MarkVisited without the visited.add
MarkVisitedNever(visited, ref) == visited

\* visited.add(ref)
MarkVisited(visited, ref) == visited \cup {ref}

\* new Set([...visited])
CloneVisited(visited) == visited

InternalRef(componentName) == SCHEMAS_PTR \o componentName

CircularPlaceholder(ref) ==
    M(<<E(W("type"), S(W("object"))),
        E(W("description"),
          S(<<"Circular reference to ">> \o ref \o <<" - replaced with placeholder">>))>>)

PlaceholderSchema(ref) ==
    M(<<E(W("type"), S(W("object"))),
        E(W("description"), S(<<"Unresolved reference to ">> \o ref)),
        E(W("properties"), M(<<>>))>>)

\* JSON.parse(JSON.stringify(obj)) of a value that JSON can hold
deepClone(obj) == obj

\* JSON.stringify(undefined) is undefined, and JSON.parse(undefined) throws
DeepCloneThrows(obj) == obj.t = "u"

\* node.$ref && typeof node.$ref === "string"
IsRefNode(node) == ObjGet(node, DREF).t = "s" /\ Truthy(ObjGet(node, DREF))

RECURSIVE processNode(_, _, _, _, _)
RECURSIVE resolveReference(_, _, _, _, _)
RECURSIVE processItems(_, _, _, _, _, _)
RECURSIVE processEntries(_, _, _, _, _, _)

\* node.map(item => processNode(item, ...))
processItems(items, fm, basePath, st, chain, acc) ==
    IF items = <<>> \/ st.threw THEN Res(A(acc), st)
    ELSE LET r == processNode(Head(items), fm, basePath, st, chain)
         IN  processItems(Tail(items), fm, basePath, r.st, chain, Append(acc, r.node))

\* for (const [key, value] of Object.entries(node)) result[key] = processNode(value, ...)
processEntries(entries, fm, basePath, st, chain, acc) ==
    IF entries = <<>> \/ st.threw THEN Res(M(acc), st)
    ELSE LET r == processNode(Head(entries).v, fm, basePath, st, chain)
         IN  processEntries(Tail(entries), fm, basePath, r.st, chain,
                            MapSet(acc, Head(entries).k, r.node))

processNode(node, fm, basePath, st, chain) ==
    IF ~IsObject(node) THEN Res(node, st)
    ELSE IF node.t = "a" THEN processItems(node.a, fm, basePath, st, chain, <<>>)
    ELSE IF IsRefNode(node)
         THEN resolveReference(ObjGet(node, DREF).s, fm, basePath, st, chain)
    ELSE processEntries(node.m, fm, basePath, st, chain, <<>>)

\* ResolveHit without the componentRegistry.schemas.set
ResolveHitUnregistered(ref, fileRef, fm, st, chain) ==
    LET componentName == extractComponentName(ref)
        opened == Log(st, "open", ref, chain)
        r == processNode(deepClone(fileRef.content), fm, PathDirname(fileRef.absolutePath),
                         [opened EXCEPT !.visited = CloneVisited(st.visited)],
                         Append(chain, ref))
        back == [r.st EXCEPT !.visited = st.visited]
    IN  IF DeepCloneThrows(fileRef.content) THEN Res(Undef, [opened EXCEPT !.threw = TRUE])
        ELSE IF Len(chain) >= MaxChain THEN Res(Undef, [opened EXCEPT !.overflow = TRUE])
        ELSE IF r.st.threw THEN Res(Undef, back)
        ELSE IF componentName # NoName
             THEN Res(Ref(InternalRef(componentName)),
                      [back EXCEPT !.refMap = MapSet(@, ref, InternalRef(componentName))])
             ELSE Res(r.node, back)

\* ResolveHit with the translation recorded before the content is resolved
ResolveHitEager(ref, fileRef, fm, st, chain) ==
    LET componentName == extractComponentName(ref)
        internalRef == InternalRef(componentName)
        opened == Log(st, "open", ref, chain)
        eager == IF componentName # NoName
                 THEN [opened EXCEPT !.refMap = MapSet(@, ref, internalRef)]
                 ELSE opened
        r == processNode(deepClone(fileRef.content), fm, PathDirname(fileRef.absolutePath),
                         [eager EXCEPT !.visited = CloneVisited(st.visited)],
                         Append(chain, ref))
        back == [r.st EXCEPT !.visited = st.visited]
    IN  IF DeepCloneThrows(fileRef.content) THEN Res(Undef, [opened EXCEPT !.threw = TRUE])
        ELSE IF Len(chain) >= MaxChain THEN Res(Undef, [opened EXCEPT !.overflow = TRUE])
        ELSE IF r.st.threw THEN Res(Undef, back)
        ELSE IF componentName # NoName
             THEN Res(Ref(internalRef),
                      [back EXCEPT !.registry.schemas = MapSet(@, componentName, r.node)])
             ELSE Res(r.node, back)

\* lines 373-412: the referenced file was found
ResolveHit(ref, fileRef, fm, st, chain) ==
    LET componentName == extractComponentName(ref)
        refBasePath == PathDirname(fileRef.absolutePath)
        opened == Log(st, "open", ref, chain)
        r == processNode(deepClone(fileRef.content), fm, refBasePath,
                         [opened EXCEPT !.visited = CloneVisited(st.visited)],
                         Append(chain, ref))
        \* the callee worked on its own copy of visited
        back == [r.st EXCEPT !.visited = st.visited]
        internalRef == InternalRef(componentName)
    IN  IF DeepCloneThrows(fileRef.content) THEN Res(Undef, [opened EXCEPT !.threw = TRUE])
        ELSE IF Len(chain) >= MaxChain THEN Res(Undef, [opened EXCEPT !.overflow = TRUE])
        ELSE IF r.st.threw THEN Res(Undef, back)
        ELSE IF componentName # NoName
             THEN Res(Ref(internalRef),
                      [back EXCEPT !.registry.schemas = MapSet(@, componentName, r.node),
                                   !.refMap = MapSet(@, ref, internalRef)])
             ELSE Res(r.node, back)

\* ResolveMiss with the translation to the stub recorded in the RefMap
ResolveMissRecorded(ref, st, chain) ==
    LET componentName == extractComponentName(ref)
        missed == Log(st, "miss", ref, chain)
    IN  IF componentName # NoName
        THEN Res(Ref(InternalRef(componentName)),
                 [missed EXCEPT !.registry.schemas =
                                    MapSet(@, componentName, PlaceholderSchema(ref)),
                                !.refMap = MapSet(@, ref, InternalRef(componentName))])
        ELSE Res(Ref(ref), missed)

\* lines 414-438: the referenced file was not found
ResolveMiss(ref, st, chain) ==
    LET componentName == extractComponentName(ref)
        missed == Log(st, "miss", ref, chain)
    IN  IF componentName # NoName
        THEN Res(Ref(InternalRef(componentName)),
                 [missed EXCEPT !.registry.schemas =
                                    MapSet(@, componentName, PlaceholderSchema(ref))])
        ELSE Res(Ref(ref), missed)

\* ResolveCircular that registers a stub for the cyclic target, as the miss
\* branch does
ResolveCircularStub(ref, st, chain) ==
    LET componentName == extractComponentName(ref)
        seen == Log(st, "cycle", ref, chain)
    IN  IF componentName # NoName
        THEN Res(Ref(InternalRef(componentName)),
                 [seen EXCEPT !.registry.schemas =
                                  MapSet(@, componentName, PlaceholderSchema(ref))])
        ELSE Res(CircularPlaceholder(ref), seen)

\* lines 318-335: the reference is in the visited set
ResolveCircular(ref, st, chain) ==
    LET componentName == extractComponentName(ref)
        seen == Log(st, "cycle", ref, chain)
    IN  IF componentName # NoName
        THEN Res(Ref(InternalRef(componentName)), seen)
        ELSE Res(CircularPlaceholder(ref), seen)

\* history: what one call of resolveReference was given and what it left
\*   call      the position in events of the record the call logged
\*   before     the resolver's objects when the call was entered
\*   node       the value the call returned
\*   after      the resolver's objects when the call returned
\*   logged     the number of records in events when the call returned
Return(ref, basePath, st, r) ==
    [call |-> Len(st.events) + 1, ref |-> ref, basePath |-> basePath,
     before |-> [registry |-> st.registry, refMap |-> st.refMap, visited |-> st.visited],
     node |-> r.node,
     after |-> [registry |-> r.st.registry, refMap |-> r.st.refMap, threw |-> r.st.threw],
     logged |-> Len(r.st.events)]

resolveReference(ref, fm, basePath, st, chain) ==
    LET r == IF StartsWith(ref, W("#")) THEN Res(Ref(ref), Log(st, "internal", ref, chain))
             ELSE IF MapHas(st.refMap, ref) /\ MapGet(st.refMap, ref) # <<>>
                  THEN Res(Ref(MapGet(st.refMap, ref)), Log(st, "memo", ref, chain))
             ELSE IF IsCircular(st.visited, ref) THEN ResolveCircular(ref, st, chain)
             ELSE LET marked == [st EXCEPT !.visited = MarkVisited(@, ref)]
                      fileRef == LookupFile(fm, basePath, ref)
                  IN  IF fileRef.found THEN ResolveHit(ref, fileRef, fm, marked, chain)
                      ELSE ResolveMiss(ref, marked, chain)
    IN  Res(r.node, [r.st EXCEPT !.returns = Append(@, Return(ref, basePath, st, r))])

resolveAllReferences(schema, fm, basePath, registry) ==
    IF DeepCloneThrows(schema)
    THEN Res(Undef, [InitialResolverState(registry) EXCEPT !.threw = TRUE])
    ELSE processNode(deepClone(schema), fm, basePath, InitialResolverState(registry), <<>>)

(***************************************************************************)
(* The Normalizer                                                          *)
(*                                                                         *)
(* normalizeSchema works on the record ns:                                 *)
(*   result     the tree being built (const result = deepClone(schema))    *)
(*   registry   the ComponentRegistry (normalizeSchema deletes from it)    *)
(*   toRename   the Map schemasToRename                                    *)
(*   threw      an exception is propagating                                *)
(*   from       history: for each key of toRename, the registry name whose  *)
(*              entry it holds                                             *)
(*   emitted    history: the registry entries written into the result, as  *)
(*              [type, name, as]                                           *)
(***************************************************************************)
PATHS == W("paths")
COMPONENTS == W("components")
SCHEMAS == W("schemas")

HttpVerbs == {"get", "post", "put", "delete", "options", "head", "patch", "trace"}

\* invalidNameRegex = /[^A-Za-z0-9\-\._]/g matches the token
IsInvalidChar(tok) == tok \in InvalidChars

\* invalidNameRegex.test(name); lastIndex is 0 at every call (a failed test and
\* every replace reset it)
HasInvalidChar(name) == \E i \in 1..Len(name) : IsInvalidChar(name[i])

\* name.replace(invalidNameRegex, "_")
Sanitize(name) == [i \in 1..Len(name) |-> IF IsInvalidChar(name[i]) THEN "_" ELSE name[i]]

\* ["get", ...].some((op) => op in schemaObj)
HasOperations(schemaObj) == \E op \in HttpVerbs : ObjHas(schemaObj, W(op))

\* typeof pathValue === "object" && pathValue !== null && "$ref" in pathValue
IsPathRef(pathValue) == IsObject(pathValue) /\ ObjHas(pathValue, DREF)

RECURSIVE updateReferences(_, _, _)
RECURSIVE updateEntries(_, _, _)

updateEntries(entries, oldRef, newRef) ==
    [i \in 1..Len(entries) |->
        IF entries[i].k = DREF /\ entries[i].v = S(oldRef) THEN E(DREF, S(newRef))
        ELSE IF IsObject(entries[i].v)
             THEN E(entries[i].k, updateReferences(entries[i].v, oldRef, newRef))
        ELSE entries[i]]

\* the tree after updateReferences(schema, oldRef, newRef) has changed it in place
updateReferences(schema, oldRef, newRef) ==
    IF ~IsObject(schema) THEN schema
    ELSE IF schema.t = "a"
         THEN A([i \in 1..Len(schema.a) |-> updateReferences(schema.a[i], oldRef, newRef)])
    ELSE M(updateEntries(schema.m, oldRef, newRef))

\* result.components.schemas
ResultSchemas(result) == ObjGet(ObjGet(result, COMPONENTS), SCHEMAS)

\* result.components[type][name] = obj
SetComponent(result, type, name, obj) ==
    LET components == ObjGet(result, COMPONENTS)
        old == ObjGet(components, W(type))
    IN  ObjSet(result, COMPONENTS, ObjSet(components, W(type), ObjSet(old, name, obj)))

\* delete result.components.schemas[name]
DeleteSchema(result, name) ==
    LET components == ObjGet(result, COMPONENTS)
    IN  ObjSet(result, COMPONENTS,
               ObjSet(components, SCHEMAS, ObjDelete(ObjGet(components, SCHEMAS), name)))

\* result.paths[pathKey] = obj
SetPath(result, pathKey, obj) == ObjSet(result, PATHS, ObjSet(ObjGet(result, PATHS), pathKey, obj))

\* lines 471-479: the components and components.schemas containers
EnsureContainers(result) ==
    LET withComponents == IF ~Truthy(ObjGet(result, COMPONENTS))
                          THEN ObjSet(result, COMPONENTS, M(<<>>)) ELSE result
        components == ObjGet(withComponents, COMPONENTS)
    IN  IF ~Truthy(ObjGet(components, SCHEMAS))
        THEN ObjSet(withComponents, COMPONENTS, ObjSet(components, SCHEMAS, M(<<>>)))
        ELSE withComponents

\* the entries Object.entries(result.paths) gives
PathEntries(result) ==
    IF ObjGet(result, PATHS).t = "m" THEN ObjGet(result, PATHS).m ELSE <<>>

RECURSIVE FixPathRefs(_, _)
\* lines 481-507: the loop over the path table
FixPathRefs(entries, ns) ==
    IF entries = <<>> \/ ns.threw THEN ns
    ELSE LET pathKey == Head(entries).k
             pathValue == Head(entries).v
             refValue == ObjGet(pathValue, DREF)
             schemaName == SubSeq(refValue.s, Len(SCHEMAS_PTR) + 1, Len(refValue.s))
             schemaObj == MapGet(ns.registry.schemas, schemaName)
         IN  IF ~IsPathRef(pathValue) THEN FixPathRefs(Tail(entries), ns)
             \* refValue.startsWith is not a function
             ELSE IF refValue.t # "s" THEN [ns EXCEPT !.threw = TRUE]
             ELSE IF ~StartsWith(refValue.s, SCHEMAS_PTR) THEN FixPathRefs(Tail(entries), ns)
             ELSE IF ~Truthy(schemaObj) THEN FixPathRefs(Tail(entries), ns)
             ELSE FixPathRefs(Tail(entries),
                      [ns EXCEPT !.result = SetPath(@, pathKey, schemaObj),
                                 !.registry.schemas = MapDelete(@, schemaName)])

RECURSIVE RenameSchemas(_, _)
\* lines 509-529: the loop over registry.schemas
RenameSchemas(entries, ns) ==
    IF entries = <<>> THEN ns
    ELSE LET name == Head(entries).k
             schemaObj == Head(entries).v
             validName == Sanitize(name)
         IN  IF HasInvalidChar(name)
             THEN RenameSchemas(Tail(entries),
                      [ns EXCEPT !.toRename = MapSet(@, validName, schemaObj),
                                 !.from = MapSet(@, validName, name),
                                 !.result = updateReferences(@, InternalRef(name),
                                                             InternalRef(validName))])
             ELSE RenameSchemas(Tail(entries),
                      [ns EXCEPT !.result = SetComponent(@, "schemas", name, schemaObj),
                                 !.emitted = @ \cup {[type |-> "schemas", name |-> name,
                                                      as |-> name]}])

RECURSIVE AddRenamed(_, _)
\* lines 531-534: the loop over schemasToRename
AddRenamed(entries, ns) ==
    IF entries = <<>> THEN ns
    ELSE AddRenamed(Tail(entries),
             [ns EXCEPT !.result = SetComponent(@, "schemas", Head(entries).k, Head(entries).v),
                        !.emitted = @ \cup {[type |-> "schemas",
                                             name |-> MapGet(ns.from, Head(entries).k),
                                             as |-> Head(entries).k]}])

RECURSIVE AddComponentsVerbatim(_, _, _)
\* AddComponents without the name.replace
AddComponentsVerbatim(entries, type, ns) ==
    IF entries = <<>> THEN ns
    ELSE AddComponentsVerbatim(Tail(entries), type,
             [ns EXCEPT !.result = SetComponent(@, type, Head(entries).k, Head(entries).v),
                        !.emitted = @ \cup {[type |-> type, name |-> Head(entries).k,
                                             as |-> Head(entries).k]}])

RECURSIVE AddComponents(_, _, _)
\* lines 546-550: the loop over one Map of another component type
AddComponents(entries, type, ns) ==
    IF entries = <<>> THEN ns
    ELSE AddComponents(Tail(entries), type,
             [ns EXCEPT !.result = SetComponent(@, type, Sanitize(Head(entries).k),
                                                Head(entries).v),
                        !.emitted = @ \cup {[type |-> type, name |-> Head(entries).k,
                                             as |-> Sanitize(Head(entries).k)]}])

RECURSIVE AddOtherTypes(_, _)
\* lines 536-552: the loop over the types of the registry
AddOtherTypes(types, ns) ==
    IF types = <<>> THEN ns
    ELSE LET type == Head(types)
             typeMap == ns.registry[type]
             components == ObjGet(ns.result, COMPONENTS)
             ensured == IF ~Truthy(ObjGet(components, W(type)))
                        THEN [ns EXCEPT !.result =
                                 ObjSet(@, COMPONENTS, ObjSet(components, W(type), M(<<>>)))]
                        ELSE ns
         IN  IF type = "schemas" \/ Len(typeMap) = 0 THEN AddOtherTypes(Tail(types), ns)
             ELSE AddOtherTypes(Tail(types), AddComponents(typeMap, type, ensured))

RECURSIVE ReplacePathRefs(_, _, _, _)
\* lines 577-588: the loop over the path table for one schema; gives [result, pathFound]
ReplacePathRefs(entries, schemaName, schemaObj, acc) ==
    IF entries = <<>> THEN acc
    ELSE LET pathValue == Head(entries).v
         IN  IF IsPathRef(pathValue) /\ ObjGet(pathValue, DREF) = S(InternalRef(schemaName))
             THEN ReplacePathRefs(Tail(entries), schemaName, schemaObj,
                      [result |-> SetPath(acc.result, Head(entries).k, schemaObj),
                       pathFound |-> TRUE])
             ELSE ReplacePathRefs(Tail(entries), schemaName, schemaObj, acc)

RECURSIVE FixNestedOperations(_, _)
\* lines 554-597: the loop over Object.entries(result.components.schemas)
FixNestedOperations(entries, result) ==
    IF entries = <<>> THEN result
    ELSE LET schemaName == Head(entries).k
             schemaObj == Head(entries).v
             fixed == ReplacePathRefs(
                          IF Truthy(ObjGet(result, PATHS)) THEN PathEntries(result) ELSE <<>>,
                          schemaName, schemaObj, [result |-> result, pathFound |-> FALSE])
         IN  IF IsObject(schemaObj) /\ HasOperations(schemaObj)
             THEN FixNestedOperations(Tail(entries),
                      IF fixed.pathFound THEN DeleteSchema(fixed.result, schemaName)
                      ELSE fixed.result)
             ELSE FixNestedOperations(Tail(entries), result)

\* reading result.components of null or undefined, or creating a property on a
\* string or a number (the module is compiled in strict mode), is a TypeError
ContainersThrow(schema) ==
    \/ ~IsObject(schema)
    \/ (schema.t = "m" /\ Truthy(ObjGet(schema, COMPONENTS))
        /\ ObjGet(schema, COMPONENTS).t # "m")
    \/ (ObjGet(schema, COMPONENTS).t = "m"
        /\ Truthy(ObjGet(ObjGet(schema, COMPONENTS), SCHEMAS))
        /\ ObjGet(ObjGet(schema, COMPONENTS), SCHEMAS).t # "m")

InitialNormalizerState(result, registry) ==
    [result |-> result, registry |-> registry, toRename |-> <<>>, threw |-> FALSE,
     from |-> <<>>, emitted |-> {}]

normalizeSchema(schema, registry) ==
    LET start == InitialNormalizerState(EnsureContainers(deepClone(schema)), registry)
        pathsFixed == FixPathRefs(IF Truthy(ObjGet(start.result, PATHS))
                                  THEN PathEntries(start.result) ELSE <<>>, start)
        renamed == RenameSchemas(pathsFixed.registry.schemas, pathsFixed)
        added == AddRenamed(renamed.toRename, renamed)
        others == AddOtherTypes(ComponentTypes, added)
    IN  IF ContainersThrow(schema)
        THEN [InitialNormalizerState(schema, registry) EXCEPT !.threw = TRUE]
        \* an array: components and all that is put under it are properties that
        \* JSON.stringify leaves out, and the array has no paths
        ELSE IF schema.t = "a" THEN InitialNormalizerState(schema, registry)
        ELSE IF pathsFixed.threw THEN pathsFixed
        ELSE [others EXCEPT !.result =
                 FixNestedOperations(ResultSchemas(others.result).m, others.result)]

(***************************************************************************)
(* The reference nodes of a tree                                           *)
(***************************************************************************)
RECURSIVE Pointers(_)
\* the pointer strings of the reference nodes of a tree: the string values
\* held under a key $ref, at any depth
Pointers(v) ==
    IF v.t = "a" THEN UNION {Pointers(v.a[i]) : i \in 1..Len(v.a)}
    ELSE IF v.t = "m"
         THEN UNION {IF v.m[i].k = DREF /\ v.m[i].v.t = "s" THEN {v.m[i].v.s}
                     ELSE Pointers(v.m[i].v) : i \in 1..Len(v.m)}
    ELSE {}

IsInternal(ptr) == StartsWith(ptr, W("#"))

(***************************************************************************)
(* The inputs: the list generatedFiles and what the disk holds             *)
(*                                                                         *)
(* An input file is [path, readable, content]: content is what yaml.load   *)
(* gives when the file can be read and parsed (readable).                  *)
(***************************************************************************)
File(path, readable, content) == [path |-> path, readable |-> readable, content |-> content]

\* path.join(config.outputDir, consolidatedFileName)
OutPath == <<"out", "/", "openapi-v3", ".", "json">>

MainPath == <<"api", "/", "openapi", ".", "yaml">>
UsersPath == <<"api", "/", "paths", "/", "users", ".", "yaml">>
UserPath == <<"api", "/", "components", "/", "schemas", "/", "User", ".", "yaml">>
PetPath == <<"api", "/", "components", "/", "schemas", "/", "Pet", ".", "yaml">>
IdPath == <<"api", "/", "components", "/", "schemas", "/", "{", "id", "}", ".", "yaml">>
ItemPath == <<"api", "/", "components", "/", "schemas", "/", "Item", ".", "yaml">>
IdParamPath == <<"api", "/", "components", "/", "parameters", "/", "{", "id", "}", ".", "yaml">>
NotFoundPath == <<"api", "/", "components", "/", "responses", "/", "NotFound", ".", "yaml">>
FragPath == <<"api", "/", ".", "frag", ".", "yaml">>
RootUserPath == <<"api", "/", "User", ".", "yaml">>
\* paths given relative to the working directory, which holds the main document
HereMainPath == <<"openapi", ".", "yaml">>
HereUserPath == <<"components", "/", "schemas", "/", "User", ".", "yaml">>
UserV1Path == <<"api", "/", "components", "/", "schemas", "/", "User", ".", "v1", ".", "yaml">>
UnderIdPath == <<"api", "/", "components", "/", "schemas", "/", "_", "id", "_", ".", "yaml">>
DollarIdPath == <<"api", "/", "components", "/", "schemas", "/", "$", "id", "$", ".", "yaml">>
LibPetPath == <<"api", "/", "lib", "/", "Pet", ".", "yaml">>
LibTagPath == <<"api", "/", "lib", "/", "Tag">>

\* pointers as the main document writes them
ToUsers == <<".", "/", "paths", "/", "users", ".", "yaml">>
ToUser == <<".", "/", "components", "/", "schemas", "/", "User", ".", "yaml">>
ToUserBare == <<"components", "/", "schemas", "/", "User">>
ToPet == <<".", "/", "components", "/", "schemas", "/", "Pet", ".", "yaml">>
ToId == <<".", "/", "components", "/", "schemas", "/", "{", "id", "}", ".", "yaml">>
ToItem == <<".", "/", "components", "/", "schemas", "/", "Item", ".", "yaml">>
ToFrag == <<".", "/", ".", "frag", ".", "yaml">>
ToMissing == <<".", "/", "missing", ".", "yaml">>
ToGone == <<".", "/", ".", "gone", ".", "yaml">>
ToRootUser == <<".", "/", "User", ".", "yaml">>
ToUserV1 == <<".", "/", "components", "/", "schemas", "/", "User", ".", "v1", ".", "yaml">>
ToIdInternal == <<"#", "/", "components", "/", "schemas", "/", "{", "id", "}">>
ToLibPet == <<".", "/", "lib", "/", "Pet", ".", "yaml">>
SideToTag == <<".", "/", "Tag", ".", "yaml">>
ToUserInternal == InternalRef(W("User"))

\* pointers as the documents under api/components/schemas and api/paths write them
UpToUser == <<".", ".", "/", "components", "/", "schemas", "/", "User", ".", "yaml">>
SideToUser == <<".", "/", "User", ".", "yaml">>
SideToPet == <<".", "/", "Pet", ".", "yaml">>
ToNotFound == <<".", "/", "components", "/", "responses", "/", "NotFound", ".", "yaml">>
SideToId == <<".", "/", "{", "id", "}", ".", "yaml">>
UpToError == <<".", ".", "/", "schemas", "/", "Error", ".", "yaml">>

StringType == M(<<E(W("type"), S(W("string")))>>)

\* { type: "object", properties: { id: { type: "string" } } }
UserDoc == M(<<E(W("type"), S(W("object"))), E(W("properties"), M(<<E(W("id"), StringType)>>))>>)

\* { get: { responses: { "200": { $ref: "../components/schemas/User.yaml" } } } }
UsersDoc == M(<<E(W("get"), M(<<E(W("responses"), M(<<E(W("200"), Ref(UpToUser))>>))>>))>>)

\* { type: "object", properties: { <key>: { $ref: <ptr> } } }
Linked(key, ptr) ==
    M(<<E(W("type"), S(W("object"))), E(W("properties"), M(<<E(W(key), Ref(ptr))>>))>>)

\* { $ref: <ptr>, description: "d" }
Described(ptr) == M(<<E(DREF, S(ptr)), E(W("description"), S(W("d")))>>)

PathKeys == <<<<"/", "users">>, <<"/", "pets">>, <<"/", "items">>, <<"/", "more">>>>
NodeKeys == <<W("a"), W("b"), W("c"), W("d")>>

\* the main document: a path table whose entries are the reference nodes ps,
\* and a mapping "definitions" whose values are the reference nodes qs
MainDoc(ps, qs) ==
    M((IF ps = <<>> THEN <<>>
       ELSE <<E(PATHS, M([i \in 1..Len(ps) |-> E(PathKeys[i], Ref(ps[i]))]))>>)
      \o
      (IF qs = <<>> THEN <<>>
       ELSE <<E(W("definitions"), M([i \in 1..Len(qs) |-> E(NodeKeys[i], Ref(qs[i]))]))>>))

\* the number of reference nodes of the main document
MaxRefs == 2

SeqsUpTo(set, n) == UNION {[1..k -> set] : k \in 0..n}

MainDocs(ptrs) ==
    {MainDoc(ps, qs) : <<ps, qs>> \in
        {pq \in SeqsUpTo(ptrs, MaxRefs) \X SeqsUpTo(ptrs, MaxRefs) :
            Len(pq[1]) + Len(pq[2]) <= MaxRefs}}

\* a world: the files beside the main document and the pointers the main
\* document may hold
World(files, ptrs) == [files |-> files, ptrs |-> ptrs]

\* a path item, the schema it points to, and three spellings of that schema
ReclassWorlds ==
    {World(<<File(UsersPath, TRUE, UsersDoc), File(UserPath, TRUE, UserDoc)>>,
           {ToUsers, ToUser, ToUserBare, ToUserInternal})}

\* User and Pet point at each other, or Pet at itself; a fragment without a
\* derivable name points at itself
CycleWorlds ==
    {World(<<File(UserPath, TRUE, Linked("pet", SideToPet)),
             File(PetPath, TRUE, Linked("owner", back)),
             File(FragPath, TRUE, Linked("self", ToFrag))>>,
           {ToUser, ToPet, ToFrag}) : back \in {SideToUser, SideToPet}}

\* components whose names need sanitizing, in both loading orders
RenameWorlds ==
    {World(<<File(IdPath, TRUE, UserDoc), File(ItemPath, TRUE, Linked("id", SideToId)),
             File(IdParamPath, TRUE, StringType)>>, {ToId, ToItem, ToMissing}),
     World(<<File(ItemPath, TRUE, Linked("id", SideToId)), File(IdPath, TRUE, UserDoc)>>,
           {ToId, ToItem}),
     World(<<File(IdPath, TRUE, Linked("next", SideToId))>>, {ToId, ToUserInternal})}

\* a component of another kind that is loaded but never resolved
PreRegisteredWorlds ==
    {World(<<File(NotFoundPath, TRUE, content), File(UserPath, TRUE, UserDoc)>>,
           {ToUser, ToMissing, ToNotFound}) :
        content \in {Linked("error", UpToError), Described(ToUserInternal)}}

\* documents that cannot be read or parsed, or that are empty
SkippedWorlds ==
    {World(<<File(UserPath, FALSE, UserDoc), File(FragPath, FALSE, UserDoc),
             File(PetPath, TRUE, Linked("owner", SideToUser))>>, {ToUser, ToFrag, ToPet, ToGone}),
     World(<<File(UserPath, TRUE, Undef), File(FragPath, TRUE, UserDoc)>>, {ToUser, ToFrag})}

\* two documents with the same base name in different directories, and a
\* third that points at the one beside it
SameNameWorlds ==
    {World(<<File(RootUserPath, TRUE, StringType), File(UserPath, TRUE, UserDoc),
             File(PetPath, TRUE, Linked("owner", SideToUser))>>,
           {ToRootUser, ToUser, ToPet})}

\* a document whose file name has no extension, pointed at with an extension
\* from the document beside it
NoExtensionWorlds ==
    {World(<<File(LibTagPath, TRUE, StringType),
             File(LibPetPath, TRUE, Linked("owner", SideToTag))>>, {ToLibPet, ToMissing})}

\* a schema document and a pointer that misses and derives the same name
StubWorlds == {World(<<File(UserPath, TRUE, UserDoc)>>, {ToUser, ToRootUser})}

\* schema documents whose names are the same once sanitized
CollidingWorlds ==
    {World(<<File(IdPath, TRUE, UserDoc), File(other, TRUE, StringType)>>, {ToId}) :
        other \in {UnderIdPath, DollarIdPath}}

\* a document outside the component directories that points at itself
SelfWorlds == {World(<<File(LibPetPath, TRUE, Linked("self", SideToPet))>>, {ToLibPet})}

\* a schema document that no pointer reaches and that points at a schema whose
\* name needs sanitizing
UnreachedWorlds ==
    {World(<<File(ItemPath, TRUE, Linked("id", ToIdInternal)), File(IdPath, TRUE, UserDoc)>>,
           {ToId})}

\* a document whose base name has two dots
VersionedWorlds == {World(<<File(UserV1Path, TRUE, UserDoc)>>, {ToUserV1, ToMissing})}

Worlds == ReclassWorlds \cup CycleWorlds \cup RenameWorlds \cup PreRegisteredWorlds
              \cup SkippedWorlds \cup SameNameWorlds \cup NoExtensionWorlds
              \cup VersionedWorlds \cup StubWorlds \cup CollidingWorlds \cup SelfWorlds
              \cup UnreachedWorlds

\* main documents that are not the mapping MainDoc builds
OddMains == {Undef, Null, S(W("text")), A(<<Ref(ToMissing)>>),
             M(<<E(PATHS, M(<<E(PathKeys[1], M(<<E(DREF, N(1))>>))>>))>>),
             M(<<E(COMPONENTS, M(<<E(SCHEMAS, M(<<E(W("Local"), Described(ToUserInternal))>>))>>))>>)}

Inputs ==
    {<<>>, <<File(<<>>, TRUE, UserDoc)>>}
    \cup UNION {{<<File(MainPath, TRUE, main)>> \o w.files : main \in MainDocs(w.ptrs)} :
                   w \in Worlds}
    \cup {<<File(MainPath, FALSE, Undef)>> \o w.files : w \in ReclassWorlds}
    \cup {<<File(MainPath, TRUE, main), File(UserPath, TRUE, UserDoc)>> : main \in OddMains}
    \cup {<<File(HereMainPath, TRUE, main), File(HereUserPath, TRUE, UserDoc)>> :
              main \in MainDocs({ToUser})}

(***************************************************************************)
(* mergeSchemaFiles as a state machine                                     *)
(***************************************************************************)
VARIABLES
    files,       \* the input: generatedFiles with what the disk holds for each
    run,         \* 1: the merge of the input; 2: the merge of the first run's output
    fed,         \* the document the second run was given
    pc,          \* "start", "loading", "resolved", "normalized", "done"
    idx,         \* the position of the loading loop in generatedFiles
    fileMap,     \* the Document Table
    registry,    \* componentRegistry
    resolved,    \* resolvedSchema
    resolver,    \* the resolver's state when resolution ended
    normalizer,  \* the normalizer's state when normalization ended
    failed,      \* the step whose exception the outer catch caught, or "none"
    written,     \* the content of the consolidated file
    result,      \* the value mergeSchemaFiles returns
    cli,         \* main of the command line: its position, argv, config and locals
    generator    \* generateSchemaFiles: its position, its map and the calls it made

vars == <<files, run, fed, pc, idx, fileMap, registry, resolved, resolver, normalizer,
          failed, written, result, cli, generator>>

\* the command line is not running
NoCli == [pc |-> "none"]

\* generateSchemaFiles has not been called
NoGenerator == [pc |-> "none"]

NoResult == [consolidatedFilePath |-> <<>>, success |-> FALSE]

Result(success) == [consolidatedFilePath |-> OutPath, success |-> success]

NoNormalizer == InitialNormalizerState(Undef, EmptyRegistry)

Fresh ==
    /\ pc = "start"
    /\ idx = 1
    /\ fileMap = <<>>
    /\ registry = EmptyRegistry
    /\ resolved = Undef
    /\ resolver = InitialResolverState(EmptyRegistry)
    /\ normalizer = NoNormalizer
    /\ failed = "none"
    /\ written = Undef
    /\ result = NoResult

Init ==
    /\ files \in Inputs
    /\ run = 1
    /\ fed = Undef
    /\ Fresh
    /\ cli = NoCli
    /\ generator = NoGenerator

\* generatedFiles[0]
mainFilePath == files[1].path

mainFileDir == PathDirname(mainFilePath)

\* the outer catch: return { consolidatedFilePath, success: false }
Catch(step) ==
    /\ pc' = "done"
    /\ failed' = step
    /\ result' = Result(FALSE)

\* lines 49-74: no main schema file in the list
NoMainFile ==
    /\ pc = "start"
    /\ UNCHANGED <<cli, generator>>
    /\ IF files = <<>> THEN TRUE ELSE mainFilePath = <<>>
    /\ Catch("list")
    /\ UNCHANGED <<files, run, fed, idx, fileMap, registry, resolved, resolver, normalizer,
                   written>>

\* lines 49-74: the loading loop is entered
StartLoading ==
    /\ pc = "start"
    /\ UNCHANGED <<cli, generator>>
    /\ IF files = <<>> THEN FALSE ELSE mainFilePath # <<>>
    /\ pc' = "loading"
    /\ UNCHANGED <<files, run, fed, idx, fileMap, registry, resolved, resolver, normalizer,
                   failed, written, result>>

\* lines 76-109: one iteration of the loading loop, the file is read and parsed
LoadFile ==
    /\ pc = "loading"
    /\ UNCHANGED <<cli, generator>>
    /\ idx <= Len(files)
    /\ files[idx].readable
    /\ fileMap' = StoreFile(fileMap, mainFileDir, files[idx].path, files[idx].content)
    /\ registry' = registerComponents(files[idx].path, files[idx].content, registry)
    /\ idx' = idx + 1
    /\ UNCHANGED <<files, run, fed, pc, resolved, resolver, normalizer, failed, written,
                   result>>

\* SkipFile without the inner try: the outer catch ends the merge
SkipFileAborts ==
    /\ pc = "loading"
    /\ UNCHANGED <<cli, generator>>
    /\ idx <= Len(files)
    /\ ~files[idx].readable
    /\ Catch("load")
    /\ UNCHANGED <<files, run, fed, idx, fileMap, registry, resolved, resolver, normalizer,
                   written>>

\* lines 110-114: one iteration of the loading loop, the inner catch
SkipFile ==
    /\ pc = "loading"
    /\ UNCHANGED <<cli, generator>>
    /\ idx <= Len(files)
    /\ ~files[idx].readable
    /\ idx' = idx + 1
    /\ UNCHANGED <<files, run, fed, pc, fileMap, registry, resolved, resolver, normalizer,
                   failed, written, result>>

\* lines 117-121: the main schema file is not in the Document Table
MainNotLoaded ==
    /\ pc = "loading"
    /\ UNCHANGED <<cli, generator>>
    /\ idx > Len(files)
    /\ ~FileMapGet(fileMap, mainFilePath).found
    /\ Catch("main")
    /\ UNCHANGED <<files, run, fed, idx, fileMap, registry, resolved, resolver, normalizer,
                   written>>

\* lines 117-131: resolveAllReferences on the main schema
Resolve ==
    /\ pc = "loading"
    /\ UNCHANGED <<cli, generator>>
    /\ idx > Len(files)
    /\ FileMapGet(fileMap, mainFilePath).found
    /\ LET r == resolveAllReferences(FileMapGet(fileMap, mainFilePath).content, fileMap,
                                     mainFileDir, registry)
       IN  /\ resolver' = r.st
           /\ IF r.st.threw
              THEN Catch("resolve") /\ UNCHANGED <<resolved, registry>>
              ELSE /\ pc' = "resolved"
                   /\ resolved' = r.node
                   /\ registry' = r.st.registry
                   /\ UNCHANGED <<failed, result>>
    /\ UNCHANGED <<files, run, fed, idx, fileMap, normalizer, written>>

\* lines 133-135: normalizeSchema
Normalize ==
    /\ pc = "resolved"
    /\ UNCHANGED <<cli, generator>>
    /\ LET ns == normalizeSchema(resolved, registry)
       IN  /\ normalizer' = ns
           /\ registry' = ns.registry
           /\ IF ns.threw
              THEN Catch("normalize")
              ELSE pc' = "normalized" /\ UNCHANGED <<failed, result>>
    /\ UNCHANGED <<files, run, fed, idx, fileMap, resolved, resolver, written>>

\* lines 137-148: the consolidated file is written
Write ==
    /\ pc = "normalized"
    /\ UNCHANGED <<cli, generator>>
    /\ written' = deepClone(normalizer.result)
    /\ pc' = "done"
    /\ result' = Result(TRUE)
    /\ UNCHANGED <<files, run, fed, idx, fileMap, registry, resolved, resolver, normalizer,
                   failed>>

\* lines 140, 149-159: fs.writeFileSync throws
WriteFails ==
    /\ pc = "normalized"
    /\ UNCHANGED <<cli, generator>>
    /\ Catch("write")
    /\ UNCHANGED <<files, run, fed, idx, fileMap, registry, resolved, resolver, normalizer,
                   written>>

\* mergeSchemaFiles is called again, with the consolidated file of a successful
\* merge as the only input
MergeOutput ==
    /\ pc = "done"
    /\ UNCHANGED <<cli, generator>>
    /\ run = 1
    /\ result.success
    /\ \A ptr \in Pointers(written) : IsInternal(ptr)
    /\ files' = <<File(OutPath, TRUE, written)>>
    /\ run' = 2
    /\ fed' = written
    /\ pc' = "start"
    /\ idx' = 1
    /\ fileMap' = <<>>
    /\ registry' = EmptyRegistry
    /\ resolved' = Undef
    /\ resolver' = InitialResolverState(EmptyRegistry)
    /\ normalizer' = NoNormalizer
    /\ failed' = "none"
    /\ written' = Undef
    /\ result' = NoResult

(***************************************************************************)
(* The command line: main and generateSchemaFiles                          *)
(***************************************************************************)
\* the longest list planFileStructure returns here
MaxPlanned == 2

\* the largest config.retryAttempts
MaxRetry == 2

mergerVars == <<files, run, fed, pc, idx, fileMap, registry, resolved, resolver,
                normalizer, failed, written, result>>

\* path.join(config.outputDir, config.outputFile)
MainSchemaFile == "openapi/openapi.yaml"

PlannedNames ==
    {MainSchemaFile, "openapi/paths/users.yaml", "openapi/components/schemas/User.yaml"}

\* what planFileStructure returns: lines ending in .yaml or .yml, at least one,
\* the main file first
Plans ==
    UNION {{p \in [1..n -> PlannedNames] : p[1] = MainSchemaFile} : n \in 1..MaxPlanned}

\* what the await of callLlmApi gives: the call throws, or it returns a text;
\* colon: text.includes(':'); loads: yaml.load(text) does not throw
Response(threw, text, colon, loads) ==
    [threw |-> threw, text |-> text, colon |-> colon, loads |-> loads]

Responses ==
    {Response(TRUE, "", FALSE, FALSE),
     Response(FALSE, "", FALSE, TRUE),
     Response(FALSE, "- a", FALSE, TRUE),
     Response(FALSE, "a: [", TRUE, FALSE),
     Response(FALSE, "openapi: 3.0.0", TRUE, TRUE),
     Response(FALSE, "type: object", TRUE, TRUE)}

\* the try block reaches generatedContentMap.set: the call returned, the basic
\* check passed and yaml.load did not throw
Validates(resp) == ~resp.threw /\ resp.text # "" /\ resp.colon /\ resp.loads

\* generateSchemaFiles is entered
InitialGenerator(plannedFiles, retryAttempts) ==
    [pc |-> "enter", plannedFiles |-> plannedFiles, retryAttempts |-> retryAttempts,
     file |-> 1, attempt |-> 0, generatedContentMap |-> <<>>, calls |-> <<>>]

\* from the head of the loop over plannedFiles at the i-th file to the next
\* await of callLlmApi, to the throw after the retry loop, or to the return
EnterFile(g, i) ==
    IF i > Len(g.plannedFiles)
    THEN [g EXCEPT !.pc = "returned", !.file = i, !.attempt = 0]
    ELSE IF 0 < g.retryAttempts
         THEN [g EXCEPT !.pc = "await", !.file = i, !.attempt = 0]
         ELSE [g EXCEPT !.pc = "threw", !.file = i, !.attempt = 0]

\* the call of callLlmApi that has just ended, as the history keeps it
Call(g, resp) ==
    [file |-> g.file, attempt |-> g.attempt, valid |-> Validates(resp),
     content |-> IF Validates(resp) THEN resp.text ELSE ""]

\* AfterResponse going on to the next planned file when the attempts are used up
AfterResponseSkips(g, resp) ==
    LET called == [g EXCEPT !.calls = Append(@, Call(g, resp))]
    IN  IF Validates(resp)
        THEN EnterFile([called EXCEPT !.generatedContentMap =
                            MapSet(@, g.plannedFiles[g.file], resp.text)], g.file + 1)
        ELSE IF g.attempt + 1 < g.retryAttempts
             THEN [called EXCEPT !.attempt = @ + 1]
             ELSE EnterFile(called, g.file + 1)

\* the await of callLlmApi resumes: the try block, the catch, the rest of the
\* retry loop and of the loop over plannedFiles up to the next await
AfterResponse(g, resp) ==
    LET called == [g EXCEPT !.calls = Append(@, Call(g, resp))]
    IN  IF Validates(resp)
        THEN EnterFile([called EXCEPT !.generatedContentMap =
                            MapSet(@, g.plannedFiles[g.file], resp.text)], g.file + 1)
        ELSE IF g.attempt + 1 < g.retryAttempts
             THEN [called EXCEPT !.attempt = @ + 1]
             ELSE [called EXCEPT !.pc = "threw"]

\* main is entered with argv.yes and the loaded config
InitialCli(yes, retryAttempts, consolidatedOutput) ==
    [pc |-> "scan", yes |-> yes, retryAttempts |-> retryAttempts,
     consolidatedOutput |-> consolidatedOutput, stages |-> <<>>, hasApis |-> FALSE,
     proceed |-> FALSE, plannedFiles |-> <<>>, generatedContentMap |-> <<>>,
     writtenFiles |-> {}, mergeResult |-> "none", patchFilePath |-> "none",
     exit |-> "none"]

CliInit ==
    /\ cli \in {InitialCli(yes, retryAttempts, consolidatedOutput) :
                    yes \in BOOLEAN, retryAttempts \in 0..MaxRetry,
                    consolidatedOutput \in BOOLEAN}
    /\ generator = NoGenerator
    /\ files = <<>>
    /\ run = 1
    /\ fed = Undef
    /\ Fresh

\* a stage of main begins
Stage(name) == [cli EXCEPT !.stages = Append(@, name)]

\* return from main
Returns(c) == [c EXCEPT !.pc = "exit", !.exit = "returned"]

\* the catch of main: process.exit(1)
Exits(c) == [c EXCEPT !.pc = "exit", !.exit = "1"]

\* step 2: scanRepository
ScanRepository ==
    /\ cli.pc = "scan"
    /\ \E outcome \in {"files", "empty", "throws"} :
           cli' = IF outcome = "files" THEN [Stage("scan") EXCEPT !.pc = "framework"]
                  ELSE IF outcome = "empty" THEN Returns(Stage("scan"))
                  ELSE Exits(Stage("scan"))
    /\ UNCHANGED <<mergerVars, generator>>

\* step 3: detectFramework
DetectFramework ==
    /\ cli.pc = "framework"
    /\ \E throws \in BOOLEAN :
           cli' = IF throws THEN Exits(Stage("framework"))
                  ELSE [Stage("framework") EXCEPT !.pc = "detection"]
    /\ UNCHANGED <<mergerVars, generator>>

\* step 4: detectApis, and the exit when no APIs are detected
DetectApis ==
    /\ cli.pc = "detection"
    /\ \E outcome \in {"apis", "none", "throws"} :
           cli' = IF outcome = "apis"
                  THEN [Stage("detection") EXCEPT !.pc = "confirmation", !.hasApis = TRUE]
                  ELSE IF outcome = "none" THEN Returns(Stage("detection"))
                  ELSE Exits(Stage("detection"))
    /\ UNCHANGED <<mergerVars, generator>>

\* step 5: the summary, and askForConfirmation unless argv.yes
Confirm ==
    /\ cli.pc = "confirmation"
    /\ \E proceed \in BOOLEAN :
           cli' = IF cli.yes THEN [Stage("confirmation") EXCEPT !.pc = "planning"]
                  ELSE IF proceed
                       THEN [Stage("confirmation") EXCEPT !.pc = "planning",
                                                          !.proceed = TRUE]
                       ELSE Returns(Stage("confirmation"))
    /\ UNCHANGED <<mergerVars, generator>>

\* step 6: planFileStructure
Plan ==
    /\ cli.pc = "planning"
    /\ \/ \E plannedFiles \in Plans :
              cli' = [Stage("planning") EXCEPT !.pc = "generation",
                                               !.plannedFiles = plannedFiles]
       \/ cli' = Exits(Stage("planning"))
    /\ UNCHANGED <<mergerVars, generator>>

\* main after generateSchemaFiles came to g: it awaits the generator, takes
\* the map it returned, or catches what it threw
Awaiting(c, g) ==
    IF g.pc = "returned"
    THEN [c EXCEPT !.pc = "writing", !.generatedContentMap = g.generatedContentMap]
    ELSE IF g.pc = "threw" THEN Exits(c)
    ELSE [c EXCEPT !.pc = "generating"]

\* step 7: generateSchemaFiles is called and runs to its first await
Generate ==
    /\ cli.pc = "generation"
    /\ generator' = EnterFile(InitialGenerator(cli.plannedFiles, cli.retryAttempts), 1)
    /\ cli' = Awaiting(Stage("generation"), generator')
    /\ UNCHANGED mergerVars

\* step 7: callLlmApi ends and generateSchemaFiles runs to its next await
LlmResponds ==
    /\ cli.pc = "generating"
    /\ generator.pc = "await"
    /\ \E resp \in Responses : generator' = AfterResponse(generator, resp)
    /\ cli' = Awaiting(cli, generator')
    /\ UNCHANGED mergerVars

\* step 8: writeSchemaFiles
WriteSchemaFiles ==
    /\ cli.pc = "writing"
    /\ \E throws \in BOOLEAN :
           cli' = IF throws THEN Exits(Stage("writing"))
                  ELSE [Stage("writing") EXCEPT
                            !.pc = IF cli.consolidatedOutput THEN "merging" ELSE "patch",
                            !.writtenFiles = MapKeys(cli.generatedContentMap)]
    /\ UNCHANGED <<mergerVars, generator>>

\* MergeSchemaFiles with a failed merge ending main
MergeSchemaFilesStops ==
    /\ cli.pc = "merging"
    /\ \E success \in BOOLEAN :
           cli' = IF success
                  THEN [Stage("merging") EXCEPT !.pc = "patch", !.mergeResult = "success"]
                  ELSE Returns([Stage("merging") EXCEPT !.mergeResult = "failure"])
    /\ UNCHANGED <<mergerVars, generator>>

\* step 9: mergeSchemaFiles when config.consolidatedOutput is set; it returns
\* its result with success true or false
MergeSchemaFiles ==
    /\ cli.pc = "merging"
    /\ \E success \in BOOLEAN :
           cli' = [Stage("merging") EXCEPT
                       !.pc = "patch",
                       !.mergeResult = IF success THEN "success" ELSE "failure"]
    /\ UNCHANGED <<mergerVars, generator>>

\* step 10: generatePatch, and the completion message
GeneratePatch ==
    /\ cli.pc = "patch"
    /\ \E outcome \in {"path", "null", "throws"} :
           cli' = IF outcome = "throws" THEN Exits(Stage("patch"))
                  ELSE Returns([Stage("patch") EXCEPT !.patchFilePath = outcome])
    /\ UNCHANGED <<mergerVars, generator>>

CliNext ==
    \/ ScanRepository
    \/ DetectFramework
    \/ DetectApis
    \/ Confirm
    \/ Plan
    \/ Generate
    \/ LlmResponds
    \/ WriteSchemaFiles
    \/ MergeSchemaFiles
    \/ GeneratePatch

CliSpec == CliInit /\ [][CliNext]_vars

\* main is one async function on the event loop: once the await of
\* mergeSchemaFiles has resumed, the call of generatePatch that follows it runs
CliFairSpec == CliSpec /\ WF_vars(GeneratePatch)

(***************************************************************************)
(* Properties                                                              *)
(***************************************************************************)
RECURSIVE At(_, _)
\* the value at a path of keys, undefined when the path leaves the tree
At(v, keys) == IF keys = <<>> THEN v ELSE At(ObjGet(v, Head(keys)), Tail(keys))

NoDuplicates(s) == \A i, j \in 1..Len(s) : s[i] = s[j] => i = j

\* the pointer strings of all the documents of the input
AllPointers == UNION {Pointers(files[i].content) : i \in 1..Len(files)}

\* the first merge has returned success
Merged == run = 1 /\ pc = "done" /\ result.success

\* the keys of result.components[type], {} when there is no such mapping
ComponentKeys(tree, type) ==
    IF At(tree, <<COMPONENTS, W(type)>>).t = "m"
    THEN MapKeys(At(tree, <<COMPONENTS, W(type)>>).m) ELSE {}

\* C1: after a successful merge every reference node of the output has a
\* pointer that starts with "#"; stated here for the emitted component
\* collections, which the claim includes
C1_ComponentPointersInternal ==
    Merged => \A ptr \in Pointers(ObjGet(written, COMPONENTS)) : IsInternal(ptr)

\* C2: resolution terminates: no pointer string is opened a second time on one
\* resolution path, so a path is no longer than the number of pointer strings
\* of the document set
C2_NoPointerOpenedTwice ==
    /\ ~resolver.overflow
    /\ \A i \in 1..Len(resolver.events) :
          LET e == resolver.events[i]
          IN  e.kind = "open" =>
                  /\ NoDuplicates(Append(e.chain, e.ref))
                  /\ Range(Append(e.chain, e.ref)) \subseteq AllPointers
                  /\ Len(e.chain) < Cardinality(AllPointers)

\* a merge that met a pointer back to an ancestor, two documents deep, and succeeded
C2_Witness ==
    /\ Merged
    /\ \E i \in 1..Len(resolver.events) :
          /\ resolver.events[i].kind = "cycle"
          /\ Len(resolver.events[i].chain) >= 2
          /\ resolver.events[i].ref \in Range(resolver.events[i].chain)

\* C3: a pointer is treated as a cycle only when an ancestor on the current
\* resolution path is resolving the same pointer string
C3_CycleOnlyOnAncestor ==
    \A i \in 1..Len(resolver.events) :
        resolver.events[i].kind = "cycle" =>
            resolver.events[i].ref \in Range(resolver.events[i].chain)

RECURSIVE RefSites(_)
\* the places of the reference nodes of a tree that lie under mappings only,
\* each as its path of keys
RefSites(v) ==
    IF v.t # "m" THEN {}
    ELSE IF IsRefNode(v) THEN {<<>>}
    ELSE UNION {{<<v.m[i].k>> \o site : site \in RefSites(v.m[i].v)} : i \in 1..Len(v.m)}

\* the pointer string of the reference node at a site
PointerAt(v, site) == At(v, site \o <<DREF>>).s

\* the main document as loaded
MainContent == files[1].content

\* C4: the nodes that hold one external pointer string are all rewritten to the
\* same internal pointer, the output's schema collection has the entry for it,
\* and a RefMap translation, once recorded, is never changed or removed
C4_Deduplicated ==
    /\ Merged =>
          \A a, b \in RefSites(MainContent) :
              (a # b /\ PointerAt(MainContent, a) = PointerAt(MainContent, b)
                     /\ ~IsInternal(PointerAt(MainContent, a)))
              => /\ IsRefNode(At(written, a))
                 /\ At(written, a) = At(written, b)
                 /\ StartsWith(PointerAt(written, a), SCHEMAS_PTR)
                 /\ SubSeq(PointerAt(written, a), Len(SCHEMAS_PTR) + 1,
                           Len(PointerAt(written, a))) \in ComponentKeys(written, "schemas")
    /\ \A i \in 1..Len(resolver.events) :
          /\ Range(resolver.events[i].refMap) \subseteq Range(resolver.refMap)
          /\ \A j \in 1..i :
                Range(resolver.events[j].refMap) \subseteq Range(resolver.events[i].refMap)

\* C5: after a schema component was renamed, no pointer to its old name remains
\* anywhere in the output
C5_NoPointerToOldName ==
    Merged =>
        \A i \in 1..Len(registry.schemas) :
            (\E c \in InvalidChars : c \in Range(registry.schemas[i].k))
            => InternalRef(registry.schemas[i].k) \notin Pointers(written)

\* the components of the resolved main document itself, which the Normalizer
\* does not take from the registry
OwnKeys(type) == ComponentKeys(resolved, type)

\* name, with each character outside [A-Za-z0-9-._] replaced by "_"
IsSanitized(as, name) ==
    /\ Len(as) = Len(name)
    /\ \A i \in 1..Len(name) :
          as[i] = (IF name[i] \in InvalidChars THEN "_" ELSE name[i])

\* C6: every component name emitted from the registry into the output, in any
\* of the nine collections, has no character outside [A-Za-z0-9-._] and is the
\* registry name with each such character replaced by "_"
C6_EmittedNamesSanitized ==
    Merged =>
        \A ty \in Range(ComponentTypes) :
            /\ \A key \in ComponentKeys(written, ty) \ OwnKeys(ty) :
                  /\ Range(key) \cap InvalidChars = {}
                  /\ \E name \in MapKeys(registry[ty]) : IsSanitized(key, name)
            /\ \A e \in normalizer.emitted :
                  /\ Range(e.as) \cap InvalidChars = {}
                  /\ IsSanitized(e.as, e.name)
                  /\ e.name \in MapKeys(registry[e.type])
            /\ ty # "schemas" =>
                  \A name \in MapKeys(registry[ty]) :
                      \E key \in ComponentKeys(written, ty) : IsSanitized(key, name)

\* a merge that emitted a renamed schema and a renamed parameter
C6_Witness ==
    /\ Merged
    /\ \E e \in normalizer.emitted : e.type = "schemas" /\ e.as # e.name
    /\ \E e \in normalizer.emitted : e.type = "parameters" /\ e.as # e.name
                                     /\ e.as \in ComponentKeys(written, "parameters")

\* the three documents of the reclassification example
C7_Input ==
    <<File(MainPath, TRUE, M(<<E(PATHS, M(<<E(<<"/", "users">>, Ref(ToUsers))>>))>>)),
      File(UsersPath, TRUE, UsersDoc),
      File(UserPath, TRUE, UserDoc)>>

\* C7: for the reclassification example the output has the internal pointer to
\* User under paths."/users".get.responses."200", the User content under
\* components.schemas.User, and no entry of components.schemas that is named by
\* an HTTP verb or holds an HTTP-verb key
C7_Reclassification ==
    (Merged /\ files = C7_Input) =>
        /\ At(written, <<PATHS, <<"/", "users">>, W("get"), W("responses"), W("200")>>)
              = Ref(InternalRef(W("User")))
        /\ At(written, <<COMPONENTS, SCHEMAS, W("User")>>) = UserDoc
        /\ \A key \in ComponentKeys(written, "schemas") :
              /\ key \notin {W(op) : op \in HttpVerbs}
              /\ ~HasOperations(At(written, <<COMPONENTS, SCHEMAS, key>>))

C7_Witness == Merged /\ files = C7_Input

\* C8: merging the output of a successful merge, given as the only input and
\* holding no external pointer, yields a tree equal to it
C8_Idempotent == (run = 2 /\ pc = "done" /\ result.success) => written = fed

\* the position of a call of mergeSchemaFiles in its body
Position ==
    CASE pc = "start" -> 0
      [] pc = "loading" -> 1
      [] pc = "resolved" -> 2
      [] pc = "normalized" -> 3
      [] pc = "done" -> 4

\* a step of a call moves it on in its body, or on in the list of files
Advances ==
    \/ run' = run /\ Position' > Position
    \/ run' = run /\ Position' = Position /\ pc = "loading" /\ idx' = idx + 1
                  /\ idx <= Len(files)
    \/ run' = run + 1 /\ pc = "done" /\ pc' = "start"

Skipped == {i \in 2..Len(files) : ~files[i].readable}

\* the loading loop has ended
Loaded == pc \notin {"start", "loading"} \/ (pc = "loading" /\ idx > Len(files))

\* the pointer of the document in directory basePath designates the file
Designates(basePath, ptr, filePath) == PathResolve(basePath, ptr) = PathResolve1(filePath)

\* C10: a non-root document that cannot be read or parsed is left out of the
\* Document Table and of the registry, the other documents are loaded, the merge
\* succeeds unless a later step fails, and a reference to the skipped document
\* is handled as a lookup miss: it becomes the pointer to a stub, or stays as it is
C10_SkippedDocument ==
    (run = 1 /\ Loaded /\ failed \notin {"list", "main"}) =>
        \A i \in Skipped :
            /\ \A n \in 1..Len(fileMap) :
                  fileMap[n].v.absolutePath # PathResolve1(files[i].path)
            /\ \A j \in 1..Len(files) :
                  files[j].readable =>
                      FileMapGet(fileMap, files[j].path).content = files[j].content
            /\ pc = "loading" =>
                  \A ty \in Range(ComponentTypes) :
                      MapGet(registry[ty], StripLastDot(PathBasename(files[i].path))) = Undef
            /\ (pc = "done" /\ failed = "none") => result.success
            /\ (pc = "resolved") =>
                  \A site \in RefSites(MainContent) :
                      LET ptr == PointerAt(MainContent, site)
                          name == extractComponentName(ptr)
                      IN  Designates(mainFileDir, ptr, files[i].path) =>
                              IF name # NoName
                              THEN /\ At(resolved, site) = Ref(InternalRef(name))
                                   /\ MapGet(registry.schemas, name) = PlaceholderSchema(ptr)
                              ELSE At(resolved, site) = Ref(ptr)

\* the call of resolveReference behind a record of returns took the branch kind
Took(ret, kind) == resolver.events[ret.call].kind = kind

\* C11: a call of resolveReference whose external pointer is in the visited set
\* and has no RefMap translation takes the cycle branch: it makes no nested
\* call, does not fail, returns the internal pointer to the derived name, or
\* the placeholder object when no name can be derived, and leaves the registry
\* and RefMap as they were
C11_CycleBranch ==
    \A i \in 1..Len(resolver.returns) :
        LET ret == resolver.returns[i]
            name == extractComponentName(ret.ref)
        IN  (/\ ~IsInternal(ret.ref)
             /\ ~MapHas(ret.before.refMap, ret.ref)
             /\ ret.ref \in ret.before.visited)
            => /\ Took(ret, "cycle")
               /\ ret.logged = ret.call
               /\ ~ret.after.threw
               /\ ret.node = (IF name # NoName THEN Ref(InternalRef(name))
                              ELSE CircularPlaceholder(ret.ref))
               /\ ret.after.registry = ret.before.registry
               /\ ret.after.refMap = ret.before.refMap

\* a merge in which one cyclic site got an internal pointer and another the
\* placeholder object
C11_Witness ==
    /\ Merged
    /\ \E i, j \in 1..Len(resolver.returns) :
          /\ Took(resolver.returns[i], "cycle")
          /\ Took(resolver.returns[j], "cycle")
          /\ IsRefNode(resolver.returns[i].node)
          /\ resolver.returns[j].node = CircularPlaceholder(resolver.returns[j].ref)

\* the name an internal pointer into the schema collection targets
TargetName(ptr) == SubSeq(ptr, Len(SCHEMAS_PTR) + 1, Len(ptr))

\* the internal pointers the resolver returned on a hit, a RefMap hit, a cyclic
\* site or a miss
Produced ==
    {PointerAt(resolver.returns[i].node, <<>>) : i \in
        {j \in 1..Len(resolver.returns) :
            /\ ~Took(resolver.returns[j], "internal")
            /\ IsRefNode(resolver.returns[j].node)
            /\ StartsWith(PointerAt(resolver.returns[j].node, <<>>), SCHEMAS_PTR)}}

\* C12: in the final output every internal pointer #/components/schemas/<name>
\* that the merger produced, as the resolver returned it or with its name
\* sanitized, targets an entry of components.schemas of that output
C12_ProducedPointersHaveTargets ==
    Merged =>
        \A ptr \in Pointers(written) :
            (\E made \in Produced :
                ptr \in {made, InternalRef(Sanitize(TargetName(made)))})
            => TargetName(ptr) \in ComponentKeys(written, "schemas")

\* the entries of the path table of a tree that are reference nodes pointing at
\* the schema-collection entry name
PathSitesTo(tree, name) ==
    {site \in RefSites(tree) :
        /\ Len(site) = 2
        /\ site[1] = PATHS
        /\ PointerAt(tree, site) = InternalRef(name)}

\* the schema-collection entries the resolver left that the output does not hold
Removed ==
    {name \in MapKeys(resolver.registry.schemas) :
        Sanitize(name) \notin ComponentKeys(written, "schemas")}

\* C13: a schema-collection entry is removed from the schema collection only
\* when its content has an HTTP-verb key and an entry of the path table is a
\* reference node pointing at it, and then that path entry holds its content
C13_OnlyOperationCollectionsMoved ==
    (Merged /\ MainContent.t = "m") =>
        \A name \in Removed :
            /\ HasOperations(MapGet(resolver.registry.schemas, name))
            /\ PathSitesTo(resolved, name) # {}
            /\ \E site \in PathSitesTo(resolved, name) :
                  At(written, site) = MapGet(resolver.registry.schemas, name)

\* C14: after normalization every entry of the path table that was a reference
\* node pointing at a schema-collection entry with an HTTP-verb key holds that
\* entry's content, and the entry is no longer under components.schemas
C14_PathEntriesHoldContent ==
    (Merged /\ MainContent.t = "m") =>
        \A name \in MapKeys(resolver.registry.schemas) :
            (HasOperations(MapGet(resolver.registry.schemas, name))
               /\ PathSitesTo(resolved, name) # {})
            => /\ \A site \in PathSitesTo(resolved, name) :
                     At(written, site) = MapGet(resolver.registry.schemas, name)
               /\ name \notin ComponentKeys(written, "schemas")

\* the registry entries made for the document files[i]: the one of the loading
\* loop, and one for each lookup hit that opened the document under a name
RegisteredFor(i) ==
    LET path == files[i].path
    IN  (IF files[i].readable
            /\ registerComponents(path, files[i].content, EmptyRegistry) # EmptyRegistry
         THEN {<<ComponentTypeOf(path), StripLastDot(PathBasename(path))>>}
         ELSE {})
        \cup
        {<<"schemas", extractComponentName(resolver.returns[k].ref)>> : k \in
            {j \in 1..Len(resolver.returns) :
                /\ Took(resolver.returns[j], "open")
                /\ extractComponentName(resolver.returns[j].ref) # NoName
                /\ ~resolver.returns[j].after.threw
                /\ LookupFile(fileMap, resolver.returns[j].basePath,
                              resolver.returns[j].ref).absolutePath = PathResolve1(path)}}

\* C15: over one merge each input document is registered as at most one
\* component of the registry, whichever pointer strings reference it and
\* whether or not the loading loop registered it
C15_OneComponentPerDocument ==
    Merged => \A i \in 2..Len(files) : Cardinality(RegisteredFor(i)) <= 1

\* the input documents an external pointer of a document in directory basePath
\* designates
Designated(basePath, ptr) ==
    {i \in 1..Len(files) : files[i].readable /\ Designates(basePath, ptr, files[i].path)}

\* C16: when an external pointer is rewritten to an internal pointer after a
\* lookup hit or a RefMap hit, the output component the internal pointer
\* targets holds the resolved content of the document the external pointer
\* designates from the directory of the document that contains it; stated for
\* designated documents that hold no pointer, whose resolved content is their
\* content
C16_ComponentHoldsDesignatedDocument ==
    Merged =>
        \A k \in 1..Len(resolver.returns) :
            LET ret == resolver.returns[k]
            IN  ((Took(ret, "open") \/ Took(ret, "memo")) /\ IsRefNode(ret.node)) =>
                    \A i \in Designated(ret.basePath, ret.ref) :
                        Pointers(files[i].content) = {} =>
                            At(written, <<COMPONENTS, SCHEMAS,
                                          Sanitize(TargetName(PointerAt(ret.node, <<>>)))>>)
                                = files[i].content

\* a mapping with exactly one key, "$ref", whose value is a string
IsReferenceNode(node) ==
    node.t = "m" /\ Len(node.m) = 1 /\ node.m[1].k = DREF /\ node.m[1].v.t = "s"

RECURSIVE KeepsShape(_, _)
\* tree out has the shape of tree in everywhere outside the reference nodes
KeepsShape(in, out) ==
    IF ~IsObject(in) THEN out = in
    ELSE IF in.t = "a"
         THEN /\ out.t = "a"
              /\ Len(out.a) = Len(in.a)
              /\ \A i \in 1..Len(in.a) : KeepsShape(in.a[i], out.a[i])
    ELSE IF IsReferenceNode(in) THEN TRUE
    ELSE /\ out.t = "m"
         /\ Len(out.m) = Len(in.m)
         /\ \A i \in 1..Len(in.m) :
                out.m[i].k = in.m[i].k /\ KeepsShape(in.m[i].v, out.m[i].v)

\* C17: the resolved main document has the shape of the main document outside
\* its reference nodes: scalars are unchanged, a sequence keeps its length and
\* order, and a mapping that is not a reference node (one that has no "$ref"
\* key, or has "$ref" next to other keys) keeps all its keys in their order
C17_ResolutionKeepsShape ==
    (run = 1 /\ pc = "resolved") => KeepsShape(MainContent, resolved)

\* a pointer with its "./" prefix removed if it has one, added if it has none
Toggled(ref) == IF StartsWith(ref, DOTSLASH) THEN SubSeq(ref, 3, Len(ref)) ELSE DOTSLASH \o ref

\* the candidate keys in the order the claim gives them
ClaimedCandidates(basePath, ref) ==
    <<ref, PathResolve(basePath, ref), Toggled(ref)>>
    \o (IF HasSchemaExt(ref)
        THEN <<StripLastDot(ref), PathResolve(basePath, StripLastDot(ref)),
               Toggled(StripLastDot(ref))>>
        ELSE <<>>)

RECURSIVE FirstPresent(_, _)
\* the document of the first candidate that is a key of the Document Table
FirstPresent(fm, candidates) ==
    IF candidates = <<>> THEN NoFile
    ELSE IF FileMapGet(fm, Head(candidates)).found THEN FileMapGet(fm, Head(candidates))
    ELSE FirstPresent(fm, Tail(candidates))

\* the calls of resolveReference that looked the pointer up in the Document Table
Lookups ==
    {k \in 1..Len(resolver.returns) :
        Took(resolver.returns[k], "open") \/ Took(resolver.returns[k], "miss")}

\* C18: every lookup of an external pointer yields the document of the first
\* present candidate in the order: the pointer; the pointer resolved against
\* basePath; the pointer with "./" toggled; the pointer without its .yaml/.yml
\* extension, then that form resolved against basePath, then that form with
\* "./" toggled; and it is a miss when no candidate is present
C18_LookupOrder ==
    (run = 1 /\ pc = "resolved") =>
        \A k \in Lookups :
            LET ret == resolver.returns[k]
            IN  /\ LookupFile(fileMap, ret.basePath, ret.ref)
                       = FirstPresent(fileMap, ClaimedCandidates(ret.basePath, ret.ref))
                /\ Took(ret, "open") <=> LookupFile(fileMap, ret.basePath, ret.ref).found

\* the four keys the claim names for a document: its absolute path, its path
\* as given, and its path relative to the main document's directory with and
\* without "./"
NamedKeys(filePath) ==
    {PathResolve1(filePath), filePath,
     DOTSLASH \o PathRelative(mainFileDir, filePath), PathRelative(mainFileDir, filePath)}

\* C19: when the loading loop has ended, each parsed document is found in the
\* Document Table under its absolute path, its path as given and its
\* main-relative path with and without "./", and, when its path ends in .yaml
\* or .yml, under each of these four keys without the extension; all these keys
\* map to that document
C19_DocumentKeys ==
    (run = 1 /\ Loaded /\ failed # "list") =>
        \A i \in 1..Len(files) :
            files[i].readable =>
                LET filePath == files[i].path
                    fileRef == FileRef(PathResolve1(filePath),
                                       PathRelative(mainFileDir, filePath), files[i].content)
                IN  /\ \A key \in NamedKeys(filePath) : FileMapGet(fileMap, key) = fileRef
                    /\ HasSchemaExt(filePath) =>
                          \A key \in NamedKeys(filePath) :
                              FileMapGet(fileMap, StripLastDot(key)) = fileRef

\* the component kinds whose directory the path is in: the segments that
\* follow a segment "components" and precede a further segment
KindsOfPath(filePath) ==
    LET segs == Segs(filePath)
    IN  {ty \in Range(ComponentTypes) :
            \E j \in 1..(Len(segs) - 2) : segs[j] = W("components") /\ segs[j + 1] = W(ty)}

\* the base name of the file without its extension
BaseNameWithoutExt(filePath) ==
    IF "." \in Range(PathBasename(filePath)) THEN StripLastDot(PathBasename(filePath))
    ELSE PathBasename(filePath)

\* C20: when the loading loop has ended, every parsed document whose root is a
\* mapping and whose path has a segment "components" followed by a segment
\* naming a component kind is in the registry collection of that kind under its
\* base name without extension, whatever precedes "components" in the path,
\* nothing included; a document in no such directory is in no collection
C20_PreRegistration ==
    (run = 1 /\ pc = "loading" /\ idx > Len(files)) =>
        \A i \in 1..Len(files) :
            files[i].readable =>
                LET name == BaseNameWithoutExt(files[i].path)
                IN  /\ files[i].content.t = "m" =>
                          \A ty \in KindsOfPath(files[i].path) :
                              MapGet(registry[ty], name) = files[i].content
                    /\ KindsOfPath(files[i].path) = {} =>
                          \A ty \in Range(ComponentTypes) :
                              ~(MapHas(registry[ty], name)
                                   /\ MapGet(registry[ty], name) = files[i].content)

\* a name with only its trailing extension removed
WithoutLastExt(name) == IF "." \in Range(name) THEN StripLastDot(name) ELSE name

\* the name the rule of the claim gives: the segment after the schema
\* directory, or else the base name, each without its trailing extension
ClaimedName(ref) ==
    LET i == IndexOf(ref, SCHEMAS_DIR)
        after == WithoutLastExt(Head(Segs(SubSeq(ref, i + Len(SCHEMAS_DIR), Len(ref)))))
        base == WithoutLastExt(PathBasename(ref))
    IN  IF i # 0 /\ after # <<>> THEN after
        ELSE IF base # <<>> THEN base
        ELSE NoName

\* the calls of resolveReference that derived a name from the pointer
Named ==
    {k \in 1..Len(resolver.returns) :
        \E kind \in {"open", "miss", "cycle"} : Took(resolver.returns[k], kind)}

\* C21: the name derived from a pointer is the path segment after the
\* component directory, or else the file's base name, with only the trailing
\* extension removed (a name with several dots keeps all but the last part),
\* and naming fails only when both are empty
C21_NamingRule ==
    \A k \in Named :
        extractComponentName(resolver.returns[k].ref) = ClaimedName(resolver.returns[k].ref)

\* the chain of opened documents a call of resolveReference was made in
ChainOf(ret) == resolver.events[ret.call].chain

\* the calls made while resolving the content of the document that call k opened
NestedIn(k) ==
    {j \in 1..Len(resolver.returns) :
        /\ ChainOf(resolver.returns[j]) = Append(ChainOf(resolver.returns[k]),
                                                 resolver.returns[k].ref)
        /\ resolver.returns[j].call > resolver.returns[k].call
        /\ resolver.returns[j].call <= resolver.returns[k].logged}

\* the registry and RefMap when the nested resolution of call k had finished
AfterNested(k) ==
    IF resolver.returns[k].logged = resolver.returns[k].call THEN resolver.returns[k].before
    ELSE resolver.returns[k - 1].after

\* the calls that found their document and returned
Hits ==
    {k \in 1..Len(resolver.returns) :
        Took(resolver.returns[k], "open") /\ ~resolver.returns[k].after.threw}

Misses == {k \in 1..Len(resolver.returns) : Took(resolver.returns[k], "miss")}

\* C23: a call of resolveReference whose lookup misses registers the stub
\* placeholder under the derived name in the schema collection and returns the
\* internal pointer to it, or, when no name can be derived, returns the
\* reference node with the original pointer and leaves the registry as it was;
\* either way the RefMap is unchanged, nothing is resolved and nothing fails
C23_LookupMiss ==
    \A k \in Misses :
        LET ret == resolver.returns[k]
            name == extractComponentName(ret.ref)
        IN  /\ ret.after.refMap = ret.before.refMap
            /\ ~ret.after.threw
            /\ ret.logged = ret.call
            /\ name # NoName =>
                  /\ ret.node = Ref(InternalRef(name))
                  /\ ret.after.registry =
                         [ret.before.registry EXCEPT !.schemas =
                             MapSet(@, name, PlaceholderSchema(ret.ref))]
            /\ name = NoName =>
                  /\ ret.node = Ref(ret.ref)
                  /\ ret.after.registry = ret.before.registry

\* a miss with a derivable name and a miss without one
C23_Witness ==
    /\ Merged
    /\ \E k \in Misses : extractComponentName(resolver.returns[k].ref) # NoName
    /\ \E k \in Misses : extractComponentName(resolver.returns[k].ref) = NoName

\* the value is the stub placeholder of some pointer of the input
IsStub(v) == \E ptr \in AllPointers : v = PlaceholderSchema(ptr)

\* C24: a lookup miss never replaces an entry of the schema collection that
\* holds real content, pre-registered or registered by an earlier resolution,
\* by the stub placeholder
C24_StubKeepsRealContent ==
    \A k \in Misses :
        LET ret == resolver.returns[k]
            name == extractComponentName(ret.ref)
        IN  (/\ name # NoName
             /\ MapHas(ret.before.registry.schemas, name)
             /\ ~IsStub(MapGet(ret.before.registry.schemas, name)))
            => MapGet(ret.after.registry.schemas, name)
                   = MapGet(ret.before.registry.schemas, name)

\* the names of the registry entries of a type that normalization emits as
\* components: all but the schema entries that are operation collections
Emittable(ty) ==
    {name \in MapKeys(registry[ty]) :
        ty = "schemas" => ~HasOperations(MapGet(registry[ty], name))}

\* C25: the output has at least as many entries in each component collection
\* as the registry has entries to emit in it: no two entries with distinct
\* names are emitted as one, also when their sanitized names are equal
C25_SanitizationLosesNothing ==
    (Merged /\ MainContent.t = "m") =>
        \A ty \in Range(ComponentTypes) :
            Cardinality(ComponentKeys(written, ty)) >= Cardinality(Emittable(ty))

\* C26: when resolution has ended, every internal pointer
\* #/components/schemas/<name> the resolver returned for an external pointer
\* (lookup hit, RefMap hit, cycle or lookup miss) names an entry of the
\* registry's schema collection
C26_SynthesizedPointersRegistered ==
    (run = 1 /\ pc = "resolved") =>
        \A ptr \in Produced : TargetName(ptr) \in MapKeys(registry.schemas)

\* resolution ended with a pointer returned at a cycle whose name was not in
\* the registry at that time
C26_Witness ==
    /\ run = 1 /\ pc = "resolved"
    /\ \E k \in 1..Len(resolver.returns) :
          /\ Took(resolver.returns[k], "cycle")
          /\ IsRefNode(resolver.returns[k].node)
          /\ ~MapHas(resolver.returns[k].before.registry.schemas,
                     extractComponentName(resolver.returns[k].ref))

\* the files whose root object registerComponents put in the registry under
\* the name: registry[componentType].set(fileNameWithoutExt, schema) stores the
\* object the Document Table holds, not a copy
PreRegisteredBy(ty, name) ==
    {i \in 1..Len(files) :
        /\ files[i].readable
        /\ MapHas(registerComponents(files[i].path, files[i].content, EmptyRegistry)[ty], name)}

\* the names the resolver stored a new object under (resolved content or stub)
SetByResolver ==
    {extractComponentName(resolver.returns[k].ref) : k \in Hits \cup Misses} \ {NoName}

\* the registry entry is still the object of a loaded document
IsLoadedObject(ty, name) ==
    /\ MapHas(registry[ty], name)
    /\ PreRegisteredBy(ty, name) # {}
    /\ ty = "schemas" => name \notin SetByResolver

\* the last file that registered the name: its object is the one in the registry
LastOf(set) == CHOOSE i \in set : \A j \in set : j <= i

\* the loaded documents whose object normalizeSchema assigns into its result
\* (result.components[type][name] = obj, lines 527, 533 and 549)
SharedDocuments ==
    {LastOf(PreRegisteredBy(ty, name)) : <<ty, name>> \in
        {tn \in Range(ComponentTypes) \X UNION {MapKeys(registry[t]) :
                                                  t \in Range(ComponentTypes)} :
            IsLoadedObject(tn[1], tn[2])}}

RECURSIVE ApplyRenames(_, _)
\* the calls updateReferences(result, old, new) of the rename loop, for the
\* entries, applied to an object that result holds
ApplyRenames(obj, entries) ==
    IF entries = <<>> THEN obj
    ELSE IF HasInvalidChar(Head(entries).k)
         THEN ApplyRenames(updateReferences(obj, InternalRef(Head(entries).k),
                                            InternalRef(Sanitize(Head(entries).k))),
                           Tail(entries))
    ELSE ApplyRenames(obj, Tail(entries))

\* the content the Document Table holds for file i when the merge ends: the
\* rename loop puts the object of a valid name into result (527) and rewrites
\* result in place for every invalid name that follows (520-524)
DocumentAtEnd(i) ==
    LET names == {name \in MapKeys(registry.schemas) :
                     /\ IsLoadedObject("schemas", name)
                     /\ ~HasInvalidChar(name)
                     /\ LastOf(PreRegisteredBy("schemas", name)) = i}
        pos(name) == CHOOSE q \in 1..Len(registry.schemas) : registry.schemas[q].k = name
        first == CHOOSE name \in names : \A other \in names : pos(name) <= pos(other)
    IN  IF names = {} THEN files[i].content
        ELSE ApplyRenames(files[i].content,
                          SubSeq(registry.schemas, pos(first) + 1, Len(registry.schemas)))

\* C27: when a merge has ended, the Document Table holds for each loaded
\* document the content it held right after loading, and the normalized schema
\* shares no object with a loaded document
C27_LoadedDocumentsImmutable ==
    (Merged /\ MainContent.t = "m") =>
        /\ SharedDocuments = {}
        /\ \A i \in 1..Len(files) :
              files[i].readable => DocumentAtEnd(i) = files[i].content

\* the number of documents open one inside the other once call k has opened its
\* document: the parameter depth of the nested processNode call
DepthOf(k) == Len(ChainOf(resolver.returns[k])) + 1

\* C28: resolution has an explicit maximum depth: no document is opened deeper
\* than the maximum, a chain that is deeper ends in a failure instead; stated
\* for a maximum below the chains of nested external references the inputs of
\* the model have, the only ones for which the statement says anything here
C28_ExplicitMaximumDepth ==
    \A k \in 1..Len(resolver.returns) :
        Took(resolver.returns[k], "open") => DepthOf(k) <= MaxChain - 1

\* the calls of callLlmApi generateSchemaFiles made for the i-th planned file
CallsFor(i) == {k \in 1..Len(generator.calls) : generator.calls[k].file = i}

\* every attempt the i-th planned file is allowed was made, and none validated
AllFailed(i) ==
    /\ \A j \in 1..(i - 1) : \E k \in CallsFor(j) : generator.calls[k].valid
    /\ \A k \in CallsFor(i) : ~generator.calls[k].valid
    /\ Cardinality(CallsFor(i)) = generator.retryAttempts

\* C29: for each planned file generateSchemaFiles makes at most retryAttempts
\* attempts; no attempt for a file follows one whose response validated, and
\* that response is the content the map holds for the file; once every attempt
\* of a file has failed (at once when retryAttempts is 0) the function has
\* thrown and no later planned file has an attempt; it returns, and main goes
\* on to write, only with content for every planned file
C29_RetryThenFail ==
    generator.pc # "none" =>
        LET g == generator
            n == Len(g.plannedFiles)
            c == g.calls
        IN  /\ \A i \in 1..n : Cardinality(CallsFor(i)) <= g.retryAttempts
            /\ \A j, k \in 1..Len(c) : (j < k /\ c[j].file = c[k].file) => ~c[j].valid
            /\ \A k \in 1..Len(c) :
                   c[k].valid =>
                       /\ MapHas(g.generatedContentMap, g.plannedFiles[c[k].file])
                       /\ (\A l \in (k + 1)..Len(c) :
                               c[l].valid =>
                                   g.plannedFiles[c[l].file] # g.plannedFiles[c[k].file])
                           => MapGet(g.generatedContentMap, g.plannedFiles[c[k].file])
                                  = c[k].content
            /\ \A i \in 1..n :
                   AllFailed(i) =>
                       /\ g.pc = "threw"
                       /\ cli.exit = "1"
                       /\ \A k \in 1..Len(c) : c[k].file <= i
            /\ g.pc = "returned" =>
                   \A i \in 1..n : MapHas(g.generatedContentMap, g.plannedFiles[i])
            /\ cli.pc = "writing" =>
                   /\ g.pc = "returned"
                   /\ MapKeys(cli.generatedContentMap) = Range(cli.plannedFiles)

\* the first of two planned files got its content at the second attempt, the
\* second used up its attempts and generateSchemaFiles threw
C29_Witness ==
    /\ generator.pc = "threw"
    /\ Len(generator.plannedFiles) = 2
    /\ generator.file = 2
    /\ \E k \in CallsFor(1) : generator.calls[k].valid /\ generator.calls[k].attempt = 1
    /\ Cardinality(CallsFor(2)) = generator.retryAttempts

\* the stages of main in the order of its steps
StageOrder ==
    <<"scan", "framework", "detection", "confirmation", "planning", "generation",
      "writing", "merging", "patch">>

Rank(stage) == CHOOSE i \in 1..Len(StageOrder) : StageOrder[i] = stage

\* the stages run so far are the first ones of the order, each once, the
\* merge left out only when config.consolidatedOutput is not set
InOrder ==
    /\ \A i \in 1..Len(cli.stages) : cli.stages[i] \in Range(StageOrder)
    /\ cli.stages # <<>> => cli.stages[1] = "scan"
    /\ \A i \in 1..(Len(cli.stages) - 1) :
           \/ Rank(cli.stages[i + 1]) = Rank(cli.stages[i]) + 1
           \/ /\ cli.stages[i] = "writing"
              /\ cli.stages[i + 1] = "patch"
              /\ ~cli.consolidatedOutput

\* nothing is written, merged or patched without detected APIs and a
\* confirmation
Gated ==
    (\/ Range(cli.stages) \cap {"writing", "merging", "patch"} # {}
     \/ cli.writtenFiles # {})
        => cli.hasApis /\ (cli.yes \/ cli.proceed)

\* mergeSchemaFiles returned success = false
MergeFailed == cli.mergeResult = "failure"

PatchRan == "patch" \in Range(cli.stages)

\* C30: main runs scan, framework detection, API detection, confirmation,
\* planning, generation, writing, merging and patch generation in this order;
\* writing, merging and patch generation happen only after API detection
\* reported APIs and the user confirmed or --yes was given; after a merge that
\* returned success = false main has not ended before generatePatch, and
\* generatePatch runs
C30_Pipeline ==
    /\ [](InOrder /\ Gated /\ (MergeFailed /\ ~PatchRan => cli.pc = "patch"))
    /\ (MergeFailed ~> PatchRan)

\* the user confirmed at the prompt, the merge returned success = false, and
\* generatePatch ran and gave the patch file
C30_Witness ==
    /\ cli.pc = "exit"
    /\ ~cli.yes
    /\ cli.proceed
    /\ MergeFailed
    /\ cli.stages = StageOrder
    /\ cli.patchFilePath = "path"

Next ==
    \/ NoMainFile
    \/ StartLoading
    \/ LoadFile
    \/ SkipFile
    \/ MainNotLoaded
    \/ Resolve
    \/ Normalize
    \/ Write
    \/ WriteFails
    \/ MergeOutput

Spec == Init /\ [][Next]_vars

=============================================================================
